---- MODULE Spec2Model ----
(***************************************************************************)
(* Model of the vesuvius-engine renderer (crates/vesuvius-engine/src):     *)
(*   - the Geometry Batcher and Frame Controller of render/mod.rs          *)
(*     (specification Spec),                                               *)
(*   - RenderPipeline::compile and ShaderModule::compile of                *)
(*     render/pipeline/{mod,shader}.rs on a device that counts live        *)
(*     handles (specification SpecPipeline).                               *)
(*   - the Frame Controller alone under the event loop of                  *)
(*     vesuvius-game/src/main.rs (specification SpecFrame),                *)
(*   - ShaderModule::reflect_input_attributes (specification SpecReflect), *)
(*   - the descriptor-set layouts compile() derives from the shaders'      *)
(*     reflected descriptor sets (specification SpecLayouts),              *)
(*   - DescriptorSet::allocate, the drops of descriptor sets and renderer  *)
(*     handles and the descriptor pool (specification SpecDescriptors),    *)
(*   - GameRenderer::queue_buffer_builder on one queue of builders         *)
(*     (specification SpecBatch),                                          *)
(*   - the vertex calls of one BufferBuilder (specification SpecBuilder),  *)
(*   - the pipeline collection under reload(true) (specification           *)
(*     SpecCollection).                                                    *)
(***************************************************************************)
EXTENDS Integers, Sequences, FiniteSets, TLC

(***************************************************************************)
(* Bounds of the model.                                                    *)
(***************************************************************************)
MaxQueue == 4
NumImages == 1
MaxFrames == 2
MaxSwapchains == 2
MaxBufs == 2
MaxCompiles == 3
MaxSets == 1
MaxImages == 2
MaxInputs == 2
MaxLocation == 1
MaxSetNumber == 1
MaxBinding == 1
MaxHandles == 2
MaxDescriptorSets == 3
MaxGroups == 2
MaxBatch == 3
MaxTextures == 2
MaxVertices == 4
MaxConfigs == 2
MaxReloads == 2
MaxBufferSize == 4
\* the width of usize and of vk::DeviceSize in the model; the build's is 64
UsizeBits == 4
MaxCalls == 3
MaxExtent == 2

(***************************************************************************)
(* Sizes the code takes from the target: mem::size_of of the element type  *)
(* handed to Buffer::write_ptr by queue_buffer_builder, and of Vec2, Vec3  *)
(* and u16.                                                                *)
(***************************************************************************)
SizeOfVec2 == 8
SizeOfVec3 == 12
SizeOfU16 == 2
SizeOfVecHeader == 24

\* min_image_count of the swapchain (render/mod.rs 169)
MinImageCount == 2

VARIABLES
    \* GameRendererInner (render/mod.rs)
    swapchain,              \* Option<vk::SwapchainKHR>: 0 is None
    swapchainLive,          \* the stored swapchain handle has not been destroyed
    imageCount,             \* images.len() = image_views.len()
    current_image_index,
    pipelines,              \* names of the pipelines in inner.pipelines
    queued_buffer_builder,  \* Vec<BufferBuilder>
    \* the recording command buffer and the device
    cmds,                   \* commands recorded since the last begin()
    destroyedBufs,          \* buffers destroyed by impl Drop for Buffer
    nextBuf,                \* next buffer handle
    nextSwap,               \* next swapchain handle
    \* the caller: the redraw handler of vesuvius-game/src/main.rs
    fstate,                 \* "Idle" | "Recording" | "Rendering"
    frames,                 \* frames begun
    builtThisFrame,         \* builders enqueued by build() since begin()
    lastCall,               \* [op, result] of the last renderer call
    crashed,                \* a panic, or the caller's unwrap of an Err, has ended the program
    \* created once by GameRenderer::new (render/mod.rs 90-128)
    command_pool,
    command_buffer,
    submit_semaphore,       \* image-available
    present_semaphore,      \* render-finished
    destroyedHandles,       \* of these four, the ones destroyed or freed
    \* the queue and the presentation engine
    gpu,                    \* acquire, submit, present and idle waits since begin()
    signaled,               \* semaphores holding a signal no wait has consumed
    pending,                \* a submission no device_wait_idle has waited for
    hazard,                 \* misuse of a semaphore or of the command buffer
    surfaceImages           \* images of the swapchain created last

rvars == <<swapchain, swapchainLive, imageCount, current_image_index, pipelines,
           queued_buffer_builder, cmds, destroyedBufs, nextBuf, nextSwap, fstate,
           frames, builtThisFrame, lastCall, crashed, command_pool,
           command_buffer, submit_semaphore, present_semaphore, destroyedHandles,
           gpu, signaled, pending, hazard, surfaceImages>>

\* the handles GameRenderer::new creates and no other function assigns
fixedHandles == <<command_pool, command_buffer, submit_semaphore,
                  present_semaphore>>

VARIABLES
    \* RenderPipeline (render/pipeline/mod.rs 21-28)
    shader_modules,         \* Vec<ShaderModule>
    descriptor_set_layouts, \* Option<Vec<..>>: [some, sets]
    vulkan_pipeline_layout, \* Option<vk::PipelineLayout>: 0 is None
    vulkan_pipeline,        \* Option<vk::Pipeline>: 0 is None
    inCollection,           \* the pipeline has been pushed into inner.pipelines
    \* the device: handles created and not destroyed, by kind
    device,
    doubleDestroy,          \* handles destroyed while not live
    nextHandle,
    \* RenderPipeline::compile in progress
    pc,                     \* the call compile() is about to make
    si,                     \* index of the shader unit being compiled
    new_descriptor_sets,    \* local descriptor_sets
    new_layout,             \* local layout
    compiles,               \* compile() calls started
    presult,                \* how the last compile() ended
    failedAt,               \* the call that ended it
    pre,                    \* the pipeline's handles when compile() was entered
    preUnit,                \* the unit when its ShaderModule::compile was entered
    pcrashed,
    failures                \* compile() calls that returned Err or panicked

pvars == <<shader_modules, descriptor_set_layouts, vulkan_pipeline_layout,
           vulkan_pipeline, inCollection, device, doubleDestroy, nextHandle, pc,
           si, new_descriptor_sets, new_layout, compiles, presult, failedAt, pre,
           preUnit, pcrashed, failures>>

VARIABLES
    \* ShaderModule::reflect_input_attributes (render/pipeline/shader.rs 91-118)
    input_variables,        \* enumerate_input_variables: [location, format]
    input_attributes,       \* Vec<vk::VertexInputAttributeDescription>
    binding_desc,           \* vk::VertexInputBindingDescription: [stride]
    rstate                  \* "new" | "reflected"

avars == <<input_variables, input_attributes, binding_desc, rstate>>

VARIABLES
    \* RenderPipeline::compile, the descriptor-set layouts
    \* (render/pipeline/mod.rs 135-160)
    reflected_sets,         \* per shader unit, enumerate_descriptor_sets("main")
    created_set_layouts,    \* the bindings of every layout created, in order
    lstate                  \* "idle" | "new" | "created"

lvars == <<reflected_sets, created_set_layouts, lstate>>

VARIABLES
    \* GameRenderer(Arc<GameRendererInner>), the descriptor pool of
    \* GameRendererInner and the DescriptorSet objects (pipeline/mod.rs 234-291)
    renderer_handles,       \* GameRenderer values alive outside descriptor sets
    descriptor_pool,        \* [live, allocated]: the sets allocated and not freed
    live_descriptor_sets,   \* DescriptorSet values alive: [object, vk_descriptor_set]
    nextObject,             \* DescriptorSet values made so far, plus one
    lastAllocate,           \* arguments and outcome of the last allocate()
    pool_destroyed_by,      \* the drop that ran impl Drop for GameRendererInner
    pool_misuse,            \* frees the device must not see
    dpanicked               \* allocate() has panicked: the program unwinds

dvars == <<renderer_handles, descriptor_pool, live_descriptor_sets, nextObject,
           lastAllocate, pool_destroyed_by, pool_misuse, dpanicked>>

VARIABLES
    \* GameRenderer::queue_buffer_builder on one queue (render/mod.rs 319-387)
    flush_queue,             \* inner.queued_buffer_builder when it is called
    buffer_builder_groups,   \* the groups built by lines 321-343
    runs,                    \* per group reached: what lines 349-376 computed
    gstate                   \* "idle" | "queued" | "grouped" | "materialized" | "panicked"

gvars == <<flush_queue, buffer_builder_groups, runs, gstate>>

VARIABLES
    \* one BufferBuilder under construction (render/mod.rs 585-660)
    builder_vertices,       \* vertices: what each completed vertex has set
    current_vertex,         \* Option<Vertex>: [some] or [some, position, color, uv]
    lastBuilderCall,        \* the last call on the builder and how it ended
    bpanicked               \* a call on the builder has panicked

bvars == <<builder_vertices, current_vertex, lastBuilderCall, bpanicked>>

VARIABLES
    \* the pipeline loop of GameRenderer::reload (render/mod.rs 208-243)
    inner_pipelines,        \* inner.pipelines: [name, compiled] per RenderPipeline
    pipeline_configs,       \* the names in the .json records of assets/pipelines
    config_index,           \* the record the loop is at
    reload_state,           \* "idle" | "running"
    reloads,                \* reload(true) calls started
    lastRecord              \* the record processed last and how compile() ended

cvars == <<inner_pipelines, pipeline_configs, config_index, reload_state,
           reloads, lastRecord>>

VARIABLES
    \* WrappedDevice::memory_barrier (device.rs 85-148), called on its own
    lastBarrier             \* the layouts of the last call and how it ended

mvars == <<lastBarrier>>

VARIABLES
    \* one Buffer (render/buffer.rs) and the writes into its mapped memory
    staging_buffer,         \* [some, size]: the Buffer made by Buffer::new
    lastWrite,              \* the last write: its inputs, result, bytes copied
    wpanicked               \* a write has panicked

wvars == <<staging_buffer, lastWrite, wpanicked>>

VARIABLES
    \* one descriptor-set group of a pipeline, a DescriptorSet allocated for
    \* it and the writes into that set (render/pipeline/mod.rs 136-152, 234-344)
    pipeline_set,           \* [some, bindings, binding_types]: the group as
                            \* the last compile() reflected and stored it
    allocated_set,          \* [some, declared, binding_types]: the DescriptorSet
    lastSetWrite,           \* the last write_to_set: binding, result, kind
    spanicked               \* a write_to_set has panicked

svars == <<pipeline_set, allocated_set, lastSetWrite, spanicked>>

VARIABLES
    \* one vertex from begin() to VertexFormat::extend_raw_data
    \* (render/buffer/builder.rs, render/buffer/format.rs)
    emit_format,            \* the VertexFormat of the builder
    emit_calls,             \* the color()/uv() calls the caller makes, in order
    emit_done,              \* how many of them have been made
    emit_vertex,            \* [some, color, uv]: current_vertex
    emit_vertices,          \* the vertices ended
    raw_data,               \* bytes appended by extend_raw_data
    estate                  \* "new" | "begun" | "ended" | "serialized" | "panicked"

evars == <<emit_format, emit_calls, emit_done, emit_vertex, emit_vertices,
           raw_data, estate>>

VARIABLES
    \* the window and what RenderPipeline::compile (pipeline/mod.rs 88-231)
    \* made for each pipeline of GameRendererInner::pipelines
    window_size,            \* window().inner_size(), one of 1..MaxExtent
    pipeline_viewport,      \* per pipeline name: the extent of the viewport and
                            \* scissor it was compiled with, 0 before any compile
    pipeline_handle,        \* per pipeline name: vulkan_pipeline, 0 for None
    lastReload              \* recompile_pipelines of the last reload: "none" |
                            \* "true" | "false"

xvars == <<window_size, pipeline_viewport, pipeline_handle, lastReload>>

vars == <<rvars, pvars, avars, lvars, dvars, gvars, bvars, cvars, mvars,
          wvars, svars, evars, xvars>>

\* what the actions of one part leave alone
notRenderer == <<pvars, avars, lvars, dvars, gvars, bvars, cvars, mvars,
                 wvars, svars, evars, xvars>>

notPipeline == <<rvars, avars, lvars, dvars, gvars, bvars, cvars, mvars,
                 wvars, svars, evars, xvars>>

notReflect == <<rvars, pvars, lvars, dvars, gvars, bvars, cvars, mvars,
                wvars, svars, evars, xvars>>

notLayouts == <<rvars, pvars, avars, dvars, gvars, bvars, cvars, mvars,
                wvars, svars, evars, xvars>>

notDescriptors == <<rvars, pvars, avars, lvars, gvars, bvars, cvars, mvars,
                    wvars, svars, evars, xvars>>

notBatch == <<rvars, pvars, avars, lvars, dvars, bvars, cvars, mvars, wvars,
              svars, evars, xvars>>

notBuilder == <<rvars, pvars, avars, lvars, dvars, gvars, cvars, mvars,
                wvars, svars, evars, xvars>>

notCollection == <<rvars, pvars, avars, lvars, dvars, gvars, bvars, mvars,
                   wvars, svars, evars, xvars>>

notBarrier == <<rvars, pvars, avars, lvars, dvars, gvars, bvars, cvars,
                wvars, svars, evars, xvars>>

notRendererNorBarrier == <<pvars, avars, lvars, dvars, gvars, bvars, cvars,
                           wvars, svars, evars, xvars>>

notWrite == <<rvars, pvars, avars, lvars, dvars, gvars, bvars, cvars, mvars,
              svars, evars, xvars>>

notSetWrite == <<rvars, pvars, avars, lvars, dvars, gvars, bvars, cvars,
                 mvars, wvars, evars, xvars>>

notEmit == <<rvars, pvars, avars, lvars, dvars, gvars, bvars, cvars, mvars,
             wvars, svars, xvars>>

notViewport == <<rvars, pvars, avars, lvars, dvars, gvars, bvars,
                 cvars, mvars, wvars, svars, evars>>

notRendererNorViewport == <<pvars, avars, lvars, dvars, gvars, bvars,
                            cvars, mvars, wvars, svars, evars>>

\* BufferBuilder::builder (builder.rs 33-43): no vertex, no call planned
EmitInit ==
    /\ emit_format = "PositionColor"
    /\ emit_calls = <<>>
    /\ emit_done = 0
    /\ emit_vertex = [some |-> FALSE]
    /\ emit_vertices = <<>>
    /\ raw_data = 0
    /\ estate = "idle"

\* the pipeline is not compiled, no DescriptorSet allocated
SetWriteInit ==
    /\ pipeline_set = [some |-> FALSE]
    /\ allocated_set = [some |-> FALSE]
    /\ lastSetWrite = [op |-> "none"]
    /\ spanicked = FALSE

\* no Buffer made yet
WriteInit ==
    /\ staging_buffer = [some |-> FALSE]
    /\ lastWrite = [op |-> "none"]
    /\ wpanicked = FALSE

\* memory_barrier has not been called on its own
BarrierInit ==
    lastBarrier = [op |-> "none"]

\* GameRenderer::new (render/mod.rs 139): pipelines: Vec::new()
CollectionInit ==
    /\ inner_pipelines = <<>>
    /\ pipeline_configs = <<>>
    /\ config_index = 1
    /\ reload_state = "idle"
    /\ reloads = 0
    /\ lastRecord = [op |-> "none"]

\* BufferBuilder::builder (render/mod.rs 601-608)
BuilderInit ==
    /\ builder_vertices = <<>>
    /\ current_vertex = [some |-> FALSE]
    /\ lastBuilderCall = [op |-> "builder", result |-> "ok"]
    /\ bpanicked = FALSE

\* queue_buffer_builder has not been called
BatchInit ==
    /\ flush_queue = <<>>
    /\ buffer_builder_groups = <<>>
    /\ runs = <<>>
    /\ gstate = "idle"

\* GameRenderer::new (render/mod.rs 102-117, 122-142): one handle, an empty pool
DescriptorsInit ==
    /\ renderer_handles = 1
    /\ descriptor_pool = [live |-> TRUE, allocated |-> {}]
    /\ live_descriptor_sets = {}
    /\ nextObject = 1
    /\ lastAllocate = [op |-> "none"]
    /\ pool_destroyed_by = "none"
    /\ pool_misuse = {}
    /\ dpanicked = FALSE

\* no descriptor-set layout derived yet
LayoutsInit ==
    /\ reflected_sets = <<>>
    /\ created_set_layouts = <<>>
    /\ lstate = "idle"

(***************************************************************************)
(* VertexFormat and BufferBuilder (render/mod.rs 539-669).                 *)
(***************************************************************************)
Images == 1..NumImages

VertexFormats ==
    {[tag |-> "TriangleCoordColor", image |-> 0],
     [tag |-> "QuadCoordColor", image |-> 0]}
    \cup {[tag |-> "QuadCoordImage", image |-> i] : i \in Images}

\* impl PartialEq for Image: the vk::Image handles are compared
ImageEq(a, b) == a = b

\* #[derive(PartialEq)] on VertexFormat: same variant, equal payload
VertexFormatEq(a, b) ==
    /\ a.tag = b.tag
    /\ (a.tag = "QuadCoordImage" => ImageEq(a.image, b.image))

add_indices(fmt) ==
    IF fmt.tag = "TriangleCoordColor" THEN <<0, 1, 2>> ELSE <<0, 1, 2, 2, 3, 0>>

vertex_size(fmt) ==
    IF fmt.tag = "QuadCoordImage" THEN SizeOfVec2 * 2 ELSE SizeOfVec2 + SizeOfVec3

pipeline_name(fmt) ==
    IF fmt.tag = "QuadCoordImage" THEN "position_texcoord" ELSE "position_color"

PipelineNames == {"position_color", "position_texcoord"}

\* vertices of the one primitive add_indices indexes
primitive_vertices(fmt) == IF fmt.tag = "TriangleCoordColor" THEN 3 ELSE 4

\* a BufferBuilder as build() leaves it: the vertices of one primitive (their
\* number stands for the list), the indices add_indices appended, no vertex
\* in progress
BuiltBuilder(fmt) ==
    [vertices |-> primitive_vertices(fmt), indices |-> add_indices(fmt),
     vertex_format |-> fmt]

\* A faulty variant of the equality below: builders are equal when they are
\* drawn with the same pipeline.
BufferBuilderEq_same_pipeline(a, b) ==
    pipeline_name(a.vertex_format) = pipeline_name(b.vertex_format)

\* impl PartialEq for BufferBuilder
BufferBuilderEq(a, b) == VertexFormatEq(a.vertex_format, b.vertex_format)

(***************************************************************************)
(* queue_buffer_builder, lines 320-343: the grouping pass.                 *)
(***************************************************************************)
RECURSIVE GroupFrom(_, _, _)
GroupFrom(q, i, groups) ==
    IF i > Len(q) THEN groups
    ELSE IF groups = <<>> THEN GroupFrom(q, i + 1, <<<<q[i]>>>>)
    ELSE LET n == Len(groups)
             last_group == groups[n]
             last_buffer_builder == last_group[Len(last_group)]
         IN  IF BufferBuilderEq(last_buffer_builder, q[i])
             THEN GroupFrom(q, i + 1, [groups EXCEPT ![n] = Append(@, q[i])])
             ELSE GroupFrom(q, i + 1, Append(groups, <<q[i]>>))

GroupBuilders(q) == GroupFrom(q, 1, <<>>)

(***************************************************************************)
(* Buffer (render/buffer.rs): the handle and the size it was created with. *)
(***************************************************************************)
Buffer_new(id, size) == [buffer |-> id, size |-> size]

\* Buffer::write_ptr<T>(data, count) panics when size < size_of::<T>() * count
write_ptr_panics(buffer, sizeOfT, count) == buffer.size < sizeOfT * count

(***************************************************************************)
(* queue_buffer_builder, lines 345-378: one vertex buffer and one index    *)
(* buffer per group.  vertices and indices are Vec<Vec<_>>: one element    *)
(* per builder of the group, and write_ptr is called with that element     *)
(* type.  failAt numbers the Buffer::new call that fails (0: none).        *)
(***************************************************************************)
RECURSIVE Materialize(_, _, _, _, _, _)
Materialize(groups, k, base, nb, done, failAt) ==
    IF k > Len(groups)
    THEN [outcome |-> "ok", buffers |-> done, created |-> nb]
    ELSE LET buffer_builder_group == groups[k]
             vertex_format == buffer_builder_group[1].vertex_format
             vertices_len == Len(buffer_builder_group)
             indices_len == Len(buffer_builder_group)
             vertex_buffer ==
                 Buffer_new(base + nb, vertex_size(vertex_format) * vertices_len)
             index_buffer == Buffer_new(base + nb + 1, SizeOfU16 * indices_len)
         IN  IF failAt = 2 * k - 1
             THEN [outcome |-> "err", buffers |-> <<>>, created |-> nb]
             ELSE IF failAt = 2 * k
             THEN [outcome |-> "err", buffers |-> <<>>, created |-> nb + 1]
             ELSE IF write_ptr_panics(vertex_buffer, SizeOfVecHeader, vertices_len)
                     \/ write_ptr_panics(index_buffer, SizeOfVecHeader, indices_len)
             THEN [outcome |-> "panic", buffers |-> <<>>, created |-> nb + 2]
             ELSE Materialize(groups, k + 1, base, nb + 2,
                      Append(done, [vertex_buffer |-> vertex_buffer,
                                    index_buffer |-> index_buffer,
                                    vertex_format |-> vertex_format]),
                      failAt)

(***************************************************************************)
(* queue_buffer_builder, lines 380-386: bind and draw.  Each tuple of      *)
(* grouped_buffers is dropped at the end of its iteration, which destroys  *)
(* both buffers (impl Drop for Buffer); find_pipeline(..).unwrap() panics  *)
(* when no pipeline has the name.                                          *)
(***************************************************************************)
RECURSIVE BindAndDraw(_, _, _, _)
BindAndDraw(buffers, k, pipes, recorded) ==
    IF k > Len(buffers) THEN [outcome |-> "ok", commands |-> recorded]
    ELSE LET b == buffers[k]
             name == pipeline_name(b.vertex_format)
         IN  IF name \notin pipes
             THEN [outcome |-> "panic", commands |-> recorded]
             ELSE BindAndDraw(buffers, k + 1, pipes,
                      recorded \o
                      << [op |-> "bind_pipeline", arg |-> name, n |-> 0],
                         [op |-> "bind_vertex_buffer",
                          arg |-> b.vertex_buffer.buffer, n |-> 0],
                         [op |-> "draw_indexed", arg |-> b.index_buffer.buffer,
                          n |-> b.index_buffer.size \div SizeOfU16] >>)

\* the whole of queue_buffer_builder on queue q
queue_buffer_builder(q, base, pipes, failAt) ==
    LET grouped_buffer_builders == GroupBuilders(q)
        m == Materialize(grouped_buffer_builders, 1, base, 0, <<>>, failAt)
        d == BindAndDraw(m.buffers, 1, pipes, <<>>)
    IN  [groups |-> grouped_buffer_builders,
         outcome |-> IF m.outcome = "ok" THEN d.outcome ELSE m.outcome,
         commands |-> IF m.outcome = "ok" THEN d.commands ELSE <<>>,
         created |-> m.created,
         queue |-> q]

\* what the last renderer call was, how it returned ("ok", "err": an Err
\* result, "panic") and the call inside it that decided that
Call(op, result, detail) == [op |-> op, result |-> result, detail |-> detail]

(***************************************************************************)
(* GameRenderer::new (render/mod.rs 77-143).                               *)
(***************************************************************************)
RendererInit ==
    /\ swapchain = 0
    /\ swapchainLive = FALSE
    /\ imageCount = 0
    /\ current_image_index = 0
    /\ pipelines = {}
    /\ queued_buffer_builder = <<>>
    /\ cmds = <<>>
    /\ destroyedBufs = {}
    /\ nextBuf = 1
    /\ nextSwap = 1
    /\ fstate = "Idle"
    /\ frames = 0
    /\ builtThisFrame = 0
    /\ lastCall = Call("new", "ok", "none")
    /\ crashed = FALSE
    /\ command_pool = 1
    /\ command_buffer = 2
    /\ submit_semaphore = 3
    /\ present_semaphore = 4
    /\ destroyedHandles = {}
    /\ gpu = <<>>
    /\ signaled = {}
    /\ pending = FALSE
    /\ hazard = {}
    /\ surfaceImages = 0

\* the window as it was created; RenderPipeline::new (pipeline/mod.rs 50-86)
\* leaves vulkan_pipeline None
ViewportInit ==
    /\ window_size = 1
    /\ pipeline_viewport = [name \in PipelineNames |-> 0]
    /\ pipeline_handle = [name \in PipelineNames |-> 0]
    /\ lastReload = "none"

(***************************************************************************)
(* GameRenderer::reload (145-246).  `step` is the call that fails:         *)
(* device_wait_idle, get_physical_device_surface_capabilities,             *)
(* create_swapchain, get_swapchain_images (all `?`), create_image_view     *)
(* (unwrap) or a pipeline compile; "none" when every call succeeds.  The   *)
(* old image views and swapchain are destroyed right after the idle wait;  *)
(* the fields are assigned after the new views exist.                      *)
(***************************************************************************)
ReloadSteps == {"none", "wait_idle", "capabilities", "create_swapchain",
                "swapchain_images", "image_view", "compile"}

\* A faulty variant of reload: when a swapchain is already stored, the new one
\* is created but the old handle stays in the Frame State.
reload_keeps_swapchain(recompile_pipelines, step, n, compiled) ==
    LET stored == step \in {"none", "compile"}
        destroyedOld == step # "wait_idle"
        created == step \in {"none", "compile", "swapchain_images", "image_view"}
    IN  [swapchain |-> IF stored /\ swapchain = 0 THEN nextSwap ELSE swapchain,
         swapchainLive |-> IF stored /\ swapchain = 0 THEN TRUE
                           ELSE IF destroyedOld THEN FALSE ELSE swapchainLive,
         imageCount |-> IF stored THEN n ELSE imageCount,
         nextSwap |-> IF created THEN nextSwap + 1 ELSE nextSwap,
         pipelines |-> IF stored /\ recompile_pipelines
                       THEN pipelines \cup compiled ELSE pipelines,
         waited |-> step # "wait_idle",
         surfaceImages |-> IF created THEN n ELSE surfaceImages,
         result |-> IF step = "none" THEN "ok"
                    ELSE IF step = "image_view" THEN "panic" ELSE "err"]

\* A faulty variant of reload: no image view is made for the last image.
reload_misses_view(recompile_pipelines, step, n, compiled) ==
    LET stored == step \in {"none", "compile"}
        destroyedOld == step # "wait_idle"
        created == step \in {"none", "compile", "swapchain_images", "image_view"}
    IN  [swapchain |-> IF stored THEN nextSwap ELSE swapchain,
         swapchainLive |-> IF stored THEN TRUE
                           ELSE IF destroyedOld THEN FALSE ELSE swapchainLive,
         imageCount |-> IF stored THEN n - 1 ELSE imageCount,
         nextSwap |-> IF created THEN nextSwap + 1 ELSE nextSwap,
         pipelines |-> IF stored /\ recompile_pipelines
                       THEN pipelines \cup compiled ELSE pipelines,
         waited |-> step # "wait_idle",
         surfaceImages |-> IF created THEN n ELSE surfaceImages,
         result |-> IF step = "none" THEN "ok"
                    ELSE IF step = "image_view" THEN "panic" ELSE "err"]

reload(recompile_pipelines, step, n, compiled) ==
    LET stored == step \in {"none", "compile"}
        destroyedOld == step # "wait_idle"
        created == step \in {"none", "compile", "swapchain_images", "image_view"}
    IN  [swapchain |-> IF stored THEN nextSwap ELSE swapchain,
         swapchainLive |-> IF stored THEN TRUE
                           ELSE IF destroyedOld THEN FALSE ELSE swapchainLive,
         imageCount |-> IF stored THEN n ELSE imageCount,
         nextSwap |-> IF created THEN nextSwap + 1 ELSE nextSwap,
         pipelines |-> IF stored /\ recompile_pipelines
                       THEN pipelines \cup compiled ELSE pipelines,
         waited |-> step # "wait_idle",
         surfaceImages |-> IF created THEN n ELSE surfaceImages,
         result |-> IF step = "none" THEN "ok"
                    ELSE IF step = "image_view" THEN "panic" ELSE "err"]

\* A faulty variant of recompiled: reload(false) also compiles every pipeline
\* of the collection.
recompiled_always(recompile_pipelines, step, compiled) ==
    IF step \in {"none", "compile"}
    THEN IF recompile_pipelines THEN compiled ELSE pipelines
    ELSE {}

\* the pipelines compile() has run on and returned Ok for (208-243): none
\* unless recompile_pipelines, and none when a call before the loop failed
recompiled(recompile_pipelines, step, compiled) ==
    IF recompile_pipelines /\ step \in {"none", "compile"} THEN compiled ELSE {}

\* what compile() makes of a pipeline: viewport and scissor have the window's
\* size at the call (pipeline/mod.rs 89-109), and vulkan_pipeline is a new
\* handle (220-229); the handle is numbered after the swapchain of the reload
compile_pipelines(done, size) ==
    /\ pipeline_viewport' = [name \in PipelineNames |->
           IF name \in done THEN size ELSE pipeline_viewport[name]]
    /\ pipeline_handle' = [name \in PipelineNames |->
           IF name \in done THEN nextSwap ELSE pipeline_handle[name]]

\* A faulty variant of Reload: the rebuild also replaces the two semaphores.
ReloadRecreatesSemaphores ==
    /\ ~crashed /\ fstate = "Idle" /\ nextSwap <= MaxSwapchains
    /\ \E recompile \in BOOLEAN, step \in ReloadSteps,
          n \in MinImageCount..MaxImages, compiled \in SUBSET PipelineNames :
          /\ (step = "compile" => recompile /\ compiled # PipelineNames)
          /\ (step # "compile" =>
                 compiled = IF recompile THEN PipelineNames ELSE {})
          /\ LET r == reload(recompile, step, n, compiled) IN
             /\ swapchain' = r.swapchain
             /\ swapchainLive' = r.swapchainLive
             /\ imageCount' = r.imageCount
             /\ nextSwap' = r.nextSwap
             /\ pipelines' = r.pipelines
             /\ crashed' = (r.result # "ok")
             /\ lastCall' = Call("reload", r.result, step)
             /\ pending' = IF r.waited THEN FALSE ELSE pending
             /\ surfaceImages' = r.surfaceImages
             /\ compile_pipelines(recompiled(recompile, step, compiled),
                                  window_size)
             /\ lastReload' = IF recompile THEN "true" ELSE "false"
    /\ UNCHANGED window_size
    /\ submit_semaphore' = submit_semaphore + 2
    /\ present_semaphore' = present_semaphore + 2
    /\ destroyedHandles' = destroyedHandles \cup {submit_semaphore, present_semaphore}
    /\ UNCHANGED <<current_image_index, queued_buffer_builder, cmds, destroyedBufs,
                   nextBuf, fstate, frames, builtThisFrame>>
    /\ UNCHANGED <<command_pool, command_buffer, gpu, signaled, hazard>>
    /\ UNCHANGED notRendererNorViewport

\* reload(recompile_pipelines) between frames, for a flag of `flags`, with the
\* window at a size of `sizes` when it is called
ReloadCall(flags, sizes) ==
    /\ ~crashed /\ fstate = "Idle" /\ nextSwap <= MaxSwapchains
    /\ \E recompile \in flags, step \in ReloadSteps,
          n \in MinImageCount..MaxImages, compiled \in SUBSET PipelineNames,
          size \in sizes :
          /\ (step = "compile" => recompile /\ compiled # PipelineNames)
          /\ (step # "compile" =>
                 compiled = IF recompile THEN PipelineNames ELSE {})
          /\ LET r == reload(recompile, step, n, compiled) IN
             /\ swapchain' = r.swapchain
             /\ swapchainLive' = r.swapchainLive
             /\ imageCount' = r.imageCount
             /\ nextSwap' = r.nextSwap
             /\ pipelines' = r.pipelines
             /\ crashed' = (r.result # "ok")
             /\ lastCall' = Call("reload", r.result, step)
             /\ pending' = IF r.waited THEN FALSE ELSE pending
             /\ surfaceImages' = r.surfaceImages
             /\ window_size' = size
             /\ compile_pipelines(recompiled(recompile, step, compiled), size)
             /\ lastReload' = IF recompile THEN "true" ELSE "false"
    /\ UNCHANGED <<current_image_index, queued_buffer_builder, cmds, destroyedBufs,
                   nextBuf, fstate, frames, builtThisFrame>>
    /\ UNCHANGED <<fixedHandles, destroyedHandles, gpu, signaled, hazard>>
    /\ UNCHANGED notRendererNorViewport

\* main.rs 36 (reload(true).unwrap()) and 65 (Resized: reload(false).unwrap()),
\* between frames, the window being as large as it was
Reload == ReloadCall(BOOLEAN, {window_size})

\* main.rs 65: the window has been given another size and the event loop
\* hands WindowEvent::Resized to renderer.reload(false).unwrap()
Resized == ReloadCall({FALSE}, (1..MaxExtent) \ {window_size})

(***************************************************************************)
(* GameRenderer::begin (248-283).  swapchain.unwrap() panics on None;      *)
(* acquire_next_image (failing with ERROR_OUT_OF_DATE_KHR or with another  *)
(* error) and the three command-buffer calls use `?`; the redraw handler   *)
(* (main.rs 89) unwraps the result.  A successful acquire signals          *)
(* submit_semaphore; reset_command_pool follows it.                        *)
(***************************************************************************)
Barrier(old, new) == [op |-> "memory_barrier", arg |-> old, n |-> new]

\* values of vk::ImageLayout
ImageLayouts == {"UNDEFINED", "GENERAL", "COLOR_ATTACHMENT_OPTIMAL",
                 "TRANSFER_SRC_OPTIMAL", "TRANSFER_DST_OPTIMAL",
                 "SHADER_READ_ONLY_OPTIMAL", "PRESENT_SRC_KHR"}

\* the masks of one arm of the match in memory_barrier
BarrierMasks(src_access_mask, dst_access_mask, src_stage_mask, dst_stage_mask) ==
    [result |-> "ok",
     src_access_mask |-> src_access_mask, dst_access_mask |-> dst_access_mask,
     src_stage_mask |-> src_stage_mask, dst_stage_mask |-> dst_stage_mask]

\* A faulty variant of memory_barrier: the arm for the transition to
\* PRESENT_SRC_KHR is missing.
memory_barrier_without_present(old_layout, new_layout_) ==
    IF old_layout = "UNDEFINED" /\ new_layout_ = "TRANSFER_DST_OPTIMAL"
    THEN BarrierMasks({}, {"TRANSFER_WRITE"}, "TOP_OF_PIPE", "TRANSFER")
    ELSE IF old_layout = "UNDEFINED" /\ new_layout_ = "COLOR_ATTACHMENT_OPTIMAL"
    THEN BarrierMasks({}, {}, "TOP_OF_PIPE", "COLOR_ATTACHMENT_OUTPUT")
    ELSE IF old_layout = "TRANSFER_DST_OPTIMAL"
            /\ new_layout_ = "SHADER_READ_ONLY_OPTIMAL"
    THEN BarrierMasks({"TRANSFER_WRITE"}, {"SHADER_READ"}, "TRANSFER",
                      "FRAGMENT_SHADER")
    ELSE [result |-> "panic"]

\* WrappedDevice::memory_barrier (device.rs 85-122): the match on
\* (old_layout, new_layout_); `_ => panic!("Unsupported layouts")`
memory_barrier(old_layout, new_layout_) ==
    IF old_layout = "UNDEFINED" /\ new_layout_ = "TRANSFER_DST_OPTIMAL"
    THEN BarrierMasks({}, {"TRANSFER_WRITE"}, "TOP_OF_PIPE", "TRANSFER")
    ELSE IF old_layout = "UNDEFINED" /\ new_layout_ = "COLOR_ATTACHMENT_OPTIMAL"
    THEN BarrierMasks({}, {}, "TOP_OF_PIPE", "COLOR_ATTACHMENT_OUTPUT")
    ELSE IF old_layout = "TRANSFER_DST_OPTIMAL"
            /\ new_layout_ = "SHADER_READ_ONLY_OPTIMAL"
    THEN BarrierMasks({"TRANSFER_WRITE"}, {"SHADER_READ"}, "TRANSFER",
                      "FRAGMENT_SHADER")
    ELSE IF old_layout = "COLOR_ATTACHMENT_OPTIMAL"
            /\ new_layout_ = "PRESENT_SRC_KHR"
    THEN BarrierMasks({}, {}, "COLOR_ATTACHMENT_OUTPUT", "BOTTOM_OF_PIPE")
    ELSE [result |-> "panic"]

gpuVars == <<gpu, signaled, pending, hazard, surfaceImages>>

\* an operation handed to the queue or the presentation engine, with the
\* semaphore it waits on and the one it signals (0: none)
QueueOp(op, wait, signal, result) ==
    [op |-> op, wait |-> wait, signal |-> signal, result |-> result]

\* acquire_next_image(swapchain, u64::MAX, submit_semaphore, Fence::null())
\* (250-258)
acquire_info == [signal |-> submit_semaphore]

Begin ==
    /\ ~crashed /\ fstate = "Idle" /\ frames < MaxFrames
    /\ frames' = frames + 1
    /\ IF swapchain = 0
       THEN /\ crashed' = TRUE
            /\ lastCall' = Call("begin", "panic", "swapchain")
            /\ UNCHANGED <<current_image_index, cmds, fstate, builtThisFrame,
                           gpu, signaled, hazard>>
       ELSE \E step \in {"none", "acquire", "acquire_out_of_date", "command_buffer"},
               idx \in 0..(imageCount - 1) :
               LET acquired == step \in {"none", "command_buffer"}
                   barrier ==
                       memory_barrier("UNDEFINED", "COLOR_ATTACHMENT_OPTIMAL")
                   recorded == step = "none" /\ barrier.result = "ok"
               IN
               /\ current_image_index' =
                      IF acquired THEN idx ELSE current_image_index
               /\ cmds' = IF recorded
                          THEN <<Barrier("UNDEFINED", "COLOR_ATTACHMENT_OPTIMAL")>>
                          ELSE cmds
               /\ fstate' = IF recorded THEN "Recording" ELSE fstate
               /\ builtThisFrame' = IF recorded THEN 0 ELSE builtThisFrame
               /\ lastCall' =
                      IF recorded THEN Call("begin", "ok", step)
                      ELSE IF step = "none"
                      THEN Call("begin", "panic", "memory_barrier")
                      ELSE Call("begin", "err", step)
               /\ crashed' = ~recorded
               /\ gpu' = IF acquired
                         THEN <<QueueOp("acquire", 0, acquire_info.signal, "ok")>>
                         ELSE <<>>
               /\ signaled' = IF acquired THEN signaled \cup {acquire_info.signal}
                              ELSE signaled
               /\ hazard' = hazard
                      \cup (IF acquired /\ acquire_info.signal \in signaled
                            THEN {"resignal"} ELSE {})
                      \cup (IF acquired /\ pending THEN {"reset_pending"} ELSE {})
    /\ UNCHANGED <<swapchain, swapchainLive, imageCount, pipelines,
                   queued_buffer_builder, destroyedBufs, nextBuf, nextSwap>>
    /\ UNCHANGED <<fixedHandles, destroyedHandles, pending, surfaceImages>>
    /\ UNCHANGED notRenderer

\* GameRenderer::clear_color (285-317): cmd_begin_rendering
ClearColor ==
    /\ ~crashed /\ fstate = "Recording"
    /\ cmds' = Append(cmds, [op |-> "begin_rendering",
                             arg |-> current_image_index, n |-> 0])
    /\ fstate' = "Rendering"
    /\ lastCall' = Call("clear_color", "ok", "none")
    /\ UNCHANGED <<swapchain, swapchainLive, imageCount, current_image_index,
                   pipelines, queued_buffer_builder, destroyedBufs, nextBuf,
                   nextSwap, frames, builtThisFrame, crashed>>
    /\ UNCHANGED <<fixedHandles, destroyedHandles, gpuVars>>
    /\ UNCHANGED notRenderer

\* BufferBuilder::build (663-668), called while the screen renders
Build ==
    /\ ~crashed /\ fstate = "Rendering"
    /\ Len(queued_buffer_builder) < MaxQueue
    /\ \E fmt \in VertexFormats :
          queued_buffer_builder' = Append(queued_buffer_builder, BuiltBuilder(fmt))
    /\ builtThisFrame' = builtThisFrame + 1
    /\ lastCall' = Call("build", "ok", "none")
    /\ UNCHANGED <<swapchain, swapchainLive, imageCount, current_image_index,
                   pipelines, cmds, destroyedBufs, nextBuf, nextSwap, fstate,
                   frames, crashed>>
    /\ UNCHANGED <<fixedHandles, destroyedHandles, gpuVars>>
    /\ UNCHANGED notRenderer

\* GameRenderer::queue_buffer_builder (319-387), a pub fn a screen may call
\* while it renders; its Err goes to that caller
Flush ==
    /\ ~crashed /\ fstate = "Rendering" /\ nextBuf <= MaxBufs
    /\ \E failAt \in 0..(2 * MaxQueue) :
          LET r == queue_buffer_builder(queued_buffer_builder, nextBuf,
                                        pipelines, failAt)
          IN  /\ (failAt > 0 => r.outcome = "err")
              /\ cmds' = cmds \o r.commands
              /\ nextBuf' = nextBuf + r.created
              /\ destroyedBufs' = destroyedBufs \cup (nextBuf..(nextBuf + r.created - 1))
              /\ crashed' = (r.outcome = "panic")
              /\ lastCall' = Call("flush", r.outcome, "none")
    /\ UNCHANGED <<swapchain, swapchainLive, imageCount, current_image_index,
                   pipelines, queued_buffer_builder, nextSwap, fstate, frames,
                   builtThisFrame>>
    /\ UNCHANGED <<fixedHandles, destroyedHandles, gpuVars>>
    /\ UNCHANGED notRenderer

(***************************************************************************)
(* GameRenderer::end (389-443).  `step` is the call that decides the       *)
(* result: end_command_buffer, queue_submit or device_wait_idle failing    *)
(* (`?`), queue_present reporting ERROR_OUT_OF_DATE_KHR (reload(false)?,   *)
(* then Ok) or another error (the match result is unwrapped), or "none".   *)
(* The redraw handler (main.rs 96) unwraps the result of end().            *)
(* end() records cmd_end_rendering and the barrier to PRESENT_SRC_KHR and  *)
(* no other command.                                                       *)
(***************************************************************************)
EndSteps == {"none", "end_command_buffer", "queue_submit", "out_of_date",
             "present_error", "wait_idle"}

end_result(step, r) ==
    IF step = "none" THEN "ok"
    ELSE IF step = "present_error" THEN "panic"
    ELSE IF step = "out_of_date" THEN r.result
    ELSE "err"

\* the call that decided the result of end(): "reload" when the
\* reload(false) of the out-of-date path returned its error (432)
end_detail(step, rstep) ==
    IF step = "out_of_date" /\ rstep # "none" THEN "reload" ELSE step

\* A faulty variant of submit_info: the two semaphores are exchanged.
submit_info_swapped == [wait |-> present_semaphore, signal |-> submit_semaphore]

\* vk::SubmitInfo (404-410) and vk::PresentInfoKHR (419-422)
submit_info == [wait |-> submit_semaphore, signal |-> present_semaphore]

present_info == [wait |-> present_semaphore]

\* queue_submit was called and succeeded (401, 411-417)
end_submitted(step) == step \notin {"end_command_buffer", "queue_submit"}

\* what queue_present returned (424-428)
present_result(step) ==
    IF step = "out_of_date" THEN "out_of_date"
    ELSE IF step = "present_error" THEN "error" ELSE "ok"

\* A faulty variant of end_gpu: the command buffer is submitted twice.
end_gpu_submits_twice(step, waited) ==
    IF ~end_submitted(step) THEN <<>>
    ELSE << QueueOp("submit", submit_info.wait, submit_info.signal, "ok"),
            QueueOp("submit", submit_info.wait, submit_info.signal, "ok"),
            QueueOp("present", present_info.wait, 0, present_result(step)) >>
         \o (IF step = "none" \/ (step = "out_of_date" /\ waited)
             THEN <<QueueOp("wait_idle", 0, 0, "ok")>> ELSE <<>>)

\* the queue operations of end(): the submission, the presentation and the
\* device_wait_idle of line 441 or, on the out-of-date path, of reload (150)
end_gpu(step, waited) ==
    IF ~end_submitted(step) THEN <<>>
    ELSE << QueueOp("submit", submit_info.wait, submit_info.signal, "ok"),
            QueueOp("present", present_info.wait, 0, present_result(step)) >>
         \o (IF step = "none" \/ (step = "out_of_date" /\ waited)
             THEN <<QueueOp("wait_idle", 0, 0, "ok")>> ELSE <<>>)

\* A faulty variant of end_pending: end() returns without an idle wait.
end_pending_no_wait(step, waited) ==
    IF ~end_submitted(step) THEN pending ELSE TRUE

\* the submission of end() is still in flight when end() returns
end_pending(step, waited) ==
    IF ~end_submitted(step) THEN pending
    ELSE IF step = "none" THEN FALSE
    ELSE IF step = "out_of_date" THEN ~waited
    ELSE TRUE

\* The submission consumes the signal it waits on and signals; a present that
\* is queued (Ok, or rejected as out of date) consumes the signal it waits on.
end_signaled(step) ==
    IF ~end_submitted(step) THEN signaled
    ELSE LET s1 == (signaled \ {submit_info.wait}) \cup {submit_info.signal}
         IN  IF present_result(step) = "error" THEN s1
             ELSE s1 \ {present_info.wait}

end_hazard(step) ==
    IF ~end_submitted(step) THEN {}
    ELSE (IF submit_info.wait \notin signaled THEN {"wait_unsignaled"} ELSE {})
         \cup (IF submit_info.signal \in signaled \ {submit_info.wait}
               THEN {"resignal"} ELSE {})
         \cup (IF present_info.wait # submit_info.signal
                  /\ present_info.wait \notin signaled \ {submit_info.wait}
               THEN {"wait_unsignaled"} ELSE {})

End ==
    /\ ~crashed /\ fstate = "Rendering"
    /\ IF memory_barrier("COLOR_ATTACHMENT_OPTIMAL", "PRESENT_SRC_KHR").result
          = "panic"
       THEN
          /\ cmds' = Append(cmds, [op |-> "end_rendering", arg |-> 0, n |-> 0])
          /\ crashed' = TRUE
          /\ lastCall' = Call("end", "panic", "memory_barrier")
          /\ UNCHANGED <<swapchain, swapchainLive, imageCount, nextSwap,
                         pipelines, gpuVars>>
       ELSE
       /\ cmds' = cmds \o
              << [op |-> "end_rendering", arg |-> 0, n |-> 0],
                 Barrier("COLOR_ATTACHMENT_OPTIMAL", "PRESENT_SRC_KHR") >>
       /\ \E step \in EndSteps, rstep \in ReloadSteps \ {"compile"},
          n \in MinImageCount..MaxImages :
          /\ (step # "out_of_date" => rstep = "none" /\ n = MinImageCount)
          /\ (step = "out_of_date" => nextSwap <= MaxSwapchains)
          /\ LET r == IF step = "out_of_date"
                      THEN reload(FALSE, rstep, n, {})
                      ELSE [swapchain |-> swapchain, swapchainLive |-> swapchainLive,
                            imageCount |-> imageCount, nextSwap |-> nextSwap,
                            pipelines |-> pipelines, waited |-> FALSE,
                            surfaceImages |-> surfaceImages, result |-> "ok"]
             IN  /\ swapchain' = r.swapchain
                 /\ swapchainLive' = r.swapchainLive
                 /\ imageCount' = r.imageCount
                 /\ nextSwap' = r.nextSwap
                 /\ pipelines' = r.pipelines
                 /\ surfaceImages' = r.surfaceImages
                 /\ crashed' = (end_result(step, r) # "ok")
                 /\ lastCall' = Call("end", end_result(step, r),
                                     end_detail(step, rstep))
                 /\ gpu' = gpu \o end_gpu(step, r.waited)
                 /\ pending' = end_pending(step, r.waited)
                 /\ signaled' = end_signaled(step)
                 /\ hazard' = hazard \cup end_hazard(step)
    /\ fstate' = "Idle"
    /\ UNCHANGED <<current_image_index, queued_buffer_builder, destroyedBufs,
                   nextBuf, frames, builtThisFrame>>
    /\ UNCHANGED <<fixedHandles, destroyedHandles>>
    /\ UNCHANGED notRenderer

(***************************************************************************)
(* impl Drop for GameRendererInner (50-71): the semaphores, the image      *)
(* views, the swapchain, the command buffer and the command pool are       *)
(* destroyed.  The renderer is dropped when the event loop ends            *)
(* (main.rs 64) or a panic unwinds through it.                             *)
(***************************************************************************)
Drop ==
    /\ fstate # "Dropped" /\ (fstate = "Idle" \/ crashed)
    /\ destroyedHandles' = destroyedHandles
           \cup {submit_semaphore, present_semaphore, command_buffer, command_pool}
    /\ swapchainLive' = FALSE
    /\ fstate' = "Dropped"
    /\ lastCall' = Call("drop", "ok", "none")
    /\ UNCHANGED <<swapchain, imageCount, current_image_index, pipelines,
                   queued_buffer_builder, cmds, destroyedBufs, nextBuf, nextSwap,
                   frames, builtThisFrame, crashed>>
    /\ UNCHANGED <<fixedHandles, gpuVars>>
    /\ UNCHANGED notRenderer

(***************************************************************************)
(* RenderPipeline::new (render/pipeline/mod.rs 50-86) for a configuration  *)
(* with a vertex and a fragment shader: every handle None, the IR empty.   *)
(***************************************************************************)
ConfigShaders == <<"Vertex", "Fragment">>

EmptyIr == [id |-> 0, sets |-> 0]

NewShaderModule(kind) ==
    [kind |-> kind, vulkan_shader_module |-> 0, shader_ir_code |-> EmptyIr]

NoLayouts == [some |-> FALSE, sets |-> <<>>]

\* the handles a pipeline holds
Handles == [shader_modules |-> shader_modules,
            descriptor_set_layouts |-> descriptor_set_layouts,
            vulkan_pipeline_layout |-> vulkan_pipeline_layout,
            vulkan_pipeline |-> vulkan_pipeline]

RenderPipeline_new ==
    [shader_modules |->
         [i \in 1..Len(ConfigShaders) |-> NewShaderModule(ConfigShaders[i])],
     descriptor_set_layouts |-> NoLayouts,
     vulkan_pipeline_layout |-> 0,
     vulkan_pipeline |-> 0]

PipelineInit ==
    /\ shader_modules = RenderPipeline_new.shader_modules
    /\ descriptor_set_layouts = RenderPipeline_new.descriptor_set_layouts
    /\ vulkan_pipeline_layout = RenderPipeline_new.vulkan_pipeline_layout
    /\ vulkan_pipeline = RenderPipeline_new.vulkan_pipeline
    /\ inCollection = FALSE
    /\ device = [modules |-> {}, dsls |-> {}, layouts |-> {}, pipelines |-> {}]
    /\ doubleDestroy = {}
    /\ nextHandle = 1
    /\ pc = "idle"
    /\ si = 1
    /\ new_descriptor_sets = <<>>
    /\ new_layout = 0
    /\ compiles = 0
    /\ presult = "none"
    /\ failedAt = "none"
    /\ pre = RenderPipeline_new
    /\ preUnit = NewShaderModule("Vertex")
    /\ pcrashed = FALSE
    /\ failures = 0

(***************************************************************************)
(* The device: vkDestroy* of a handle.  Destroying a handle that is not    *)
(* live is recorded as <<kind, handle>>.                                   *)
(***************************************************************************)
Range(seq) == {seq[i] : i \in 1..Len(seq)}

DestroyAll(dev, kind, hs) == [dev EXCEPT ![kind] = @ \ hs]

NotLive(dev, kind, hs) == {<<kind, h>> : h \in hs \ dev[kind]}

\* descriptor-set groups the compiled shaders declare, in create order
TotalSets(units) ==
    LET RECURSIVE Sum(_)
        Sum(i) == IF i > Len(units) THEN 0
                  ELSE units[i].shader_ir_code.sets + Sum(i + 1)
    IN  Sum(1)

\* an Err result of compile(): reload() hands it on; a pipeline that is not
\* in the collection yet is dropped (mod.rs 236-239)
Fail(step) ==
    /\ presult' = "err"
    /\ failedAt' = step
    /\ failures' = failures + 1
    /\ pc' = IF inCollection THEN "idle" ELSE "drop"

(***************************************************************************)
(* RenderPipeline::compile (88-231) and, inside its first loop,            *)
(* ShaderModule::compile (shader.rs 57-89), one step per fallible or       *)
(* device call.                                                            *)
(***************************************************************************)
\* compile() is entered (reload, mod.rs 234 and 238)
CompileBegin ==
    /\ ~pcrashed /\ pc = "idle" /\ compiles < MaxCompiles
    /\ compiles' = compiles + 1
    /\ pre' = Handles
    /\ pc' = "shader_source"
    /\ si' = 1
    /\ new_descriptor_sets' = <<>>
    /\ new_layout' = 0
    /\ presult' = "running"
    /\ failedAt' = "none"
    /\ UNCHANGED <<shader_modules, descriptor_set_layouts, vulkan_pipeline_layout,
                   vulkan_pipeline, inCollection, device, doubleDestroy,
                   nextHandle, preUnit, pcrashed, failures>>
    /\ UNCHANGED notPipeline

\* shader.rs 58-76: read the source, create the compiler, compile to SPIR-V
\* (each `?`), then store the IR; `sets` is what the new IR declares
ShaderSource ==
    /\ ~pcrashed /\ pc = "shader_source"
    /\ preUnit' = shader_modules[si]
    /\ \E step \in {"none", "read_source", "create_compiler", "compile_into_spirv"},
          sets \in 0..MaxSets :
          IF step = "none"
          THEN /\ shader_modules' =
                      [shader_modules EXCEPT ![si].shader_ir_code =
                           [id |-> compiles, sets |-> sets]]
               /\ pc' = "shader_destroy"
               /\ UNCHANGED <<presult, failedAt, failures>>
          ELSE /\ sets = 0
               /\ Fail(step)
               /\ UNCHANGED shader_modules
    /\ UNCHANGED <<descriptor_set_layouts, vulkan_pipeline_layout, vulkan_pipeline,
                   inCollection, device, doubleDestroy, nextHandle, si,
                   new_descriptor_sets, new_layout, compiles, pre, pcrashed>>
    /\ UNCHANGED notPipeline

\* shader.rs 80-82: destroy_shader_module(old) when the handle is Some
ShaderDestroyOld ==
    /\ ~pcrashed /\ pc = "shader_destroy"
    /\ LET old == shader_modules[si].vulkan_shader_module
           hs == IF old = 0 THEN {} ELSE {old}
       IN  /\ doubleDestroy' = doubleDestroy \cup NotLive(device, "modules", hs)
           /\ device' = DestroyAll(device, "modules", hs)
    /\ pc' = "shader_create"
    /\ UNCHANGED <<shader_modules, descriptor_set_layouts, vulkan_pipeline_layout,
                   vulkan_pipeline, inCollection, nextHandle, si,
                   new_descriptor_sets, new_layout, compiles, presult, failedAt,
                   pre, preUnit, pcrashed, failures>>
    /\ UNCHANGED notPipeline

\* A faulty variant of the step below: the Err of create_shader_module also
\* tears down the pipeline the RenderPipeline holds.
ShaderCreateTearsDownPipeline ==
    /\ ~pcrashed /\ pc = "shader_create"
    /\ \E ok \in BOOLEAN :
          IF ok
          THEN /\ shader_modules' =
                      [shader_modules EXCEPT ![si].vulkan_shader_module = nextHandle]
               /\ device' = [device EXCEPT !.modules = @ \cup {nextHandle}]
               /\ nextHandle' = nextHandle + 1
               /\ si' = IF si < Len(shader_modules) THEN si + 1 ELSE si
               /\ pc' = IF si < Len(shader_modules) THEN "shader_source"
                        ELSE IF TotalSets(shader_modules) > 0 THEN "dsl"
                        ELSE "layout"
               /\ UNCHANGED <<presult, failedAt, failures>>
          ELSE /\ Fail("create_shader_module")
               /\ device' = DestroyAll(device, "pipelines", {vulkan_pipeline})
               /\ UNCHANGED <<shader_modules, nextHandle, si>>
    /\ UNCHANGED <<descriptor_set_layouts, vulkan_pipeline_layout, vulkan_pipeline,
                   inCollection, doubleDestroy, new_descriptor_sets, new_layout,
                   compiles, pre, preUnit, pcrashed>>
    /\ UNCHANGED notPipeline

\* shader.rs 84-88: create_shader_module(..)?, then store the handle;
\* pipeline/mod.rs 92-94: the next unit, or on to the descriptor-set layouts
ShaderCreate ==
    /\ ~pcrashed /\ pc = "shader_create"
    /\ \E ok \in BOOLEAN :
          IF ok
          THEN /\ shader_modules' =
                      [shader_modules EXCEPT ![si].vulkan_shader_module = nextHandle]
               /\ device' = [device EXCEPT !.modules = @ \cup {nextHandle}]
               /\ nextHandle' = nextHandle + 1
               /\ si' = IF si < Len(shader_modules) THEN si + 1 ELSE si
               /\ pc' = IF si < Len(shader_modules) THEN "shader_source"
                        ELSE IF TotalSets(shader_modules) > 0 THEN "dsl"
                        ELSE "layout"
               /\ UNCHANGED <<presult, failedAt, failures>>
          ELSE /\ Fail("create_shader_module")
               /\ UNCHANGED <<shader_modules, device, nextHandle, si>>
    /\ UNCHANGED <<descriptor_set_layouts, vulkan_pipeline_layout, vulkan_pipeline,
                   inCollection, doubleDestroy, new_descriptor_sets, new_layout,
                   compiles, pre, preUnit, pcrashed>>
    /\ UNCHANGED notPipeline

\* pipeline/mod.rs 136-152: create_descriptor_set_layout(..)? for the next
\* descriptor set of the next shader
CreateDescriptorSetLayout ==
    /\ ~pcrashed /\ pc = "dsl"
    /\ \E ok \in BOOLEAN :
          IF ok
          THEN /\ new_descriptor_sets' = Append(new_descriptor_sets, nextHandle)
               /\ device' = [device EXCEPT !.dsls = @ \cup {nextHandle}]
               /\ nextHandle' = nextHandle + 1
               /\ pc' = IF Len(new_descriptor_sets) + 1 < TotalSets(shader_modules)
                        THEN "dsl" ELSE "layout"
               /\ UNCHANGED <<presult, failedAt, failures>>
          ELSE /\ Fail("create_descriptor_set_layout")
               /\ UNCHANGED <<new_descriptor_sets, device, nextHandle>>
    /\ UNCHANGED <<shader_modules, descriptor_set_layouts, vulkan_pipeline_layout,
                   vulkan_pipeline, inCollection, doubleDestroy, si, new_layout,
                   compiles, pre, preUnit, pcrashed>>
    /\ UNCHANGED notPipeline

\* pipeline/mod.rs 154-160: create_pipeline_layout(..)?
CreatePipelineLayout ==
    /\ ~pcrashed /\ pc = "layout"
    /\ \E ok \in BOOLEAN :
          IF ok
          THEN /\ new_layout' = nextHandle
               /\ device' = [device EXCEPT !.layouts = @ \cup {nextHandle}]
               /\ nextHandle' = nextHandle + 1
               /\ pc' = "destroy_dsl"
               /\ UNCHANGED <<presult, failedAt, failures>>
          ELSE /\ Fail("create_pipeline_layout")
               /\ UNCHANGED <<new_layout, device, nextHandle>>
    /\ UNCHANGED <<shader_modules, descriptor_set_layouts, vulkan_pipeline_layout,
                   vulkan_pipeline, inCollection, doubleDestroy, si,
                   new_descriptor_sets, compiles, pre, preUnit, pcrashed>>
    /\ UNCHANGED notPipeline

\* pipeline/mod.rs 203-207: destroy every old descriptor-set layout
DestroyOldDescriptorSetLayouts ==
    /\ ~pcrashed /\ pc = "destroy_dsl"
    /\ LET hs == IF descriptor_set_layouts.some
                 THEN Range(descriptor_set_layouts.sets) ELSE {}
       IN  /\ doubleDestroy' = doubleDestroy \cup NotLive(device, "dsls", hs)
           /\ device' = DestroyAll(device, "dsls", hs)
    /\ pc' = "destroy_pipeline"
    /\ UNCHANGED <<shader_modules, descriptor_set_layouts, vulkan_pipeline_layout,
                   vulkan_pipeline, inCollection, nextHandle, si,
                   new_descriptor_sets, new_layout, compiles, presult, failedAt,
                   pre, preUnit, pcrashed, failures>>
    /\ UNCHANGED notPipeline

\* A faulty variant of the step below: the old pipeline is not destroyed.
DestroyOldPipelineSkipped ==
    /\ ~pcrashed /\ pc = "destroy_pipeline"
    /\ pc' = "destroy_layout"
    /\ UNCHANGED <<shader_modules, descriptor_set_layouts, vulkan_pipeline_layout,
                   vulkan_pipeline, inCollection, device, doubleDestroy,
                   nextHandle, si, new_descriptor_sets, new_layout, compiles,
                   presult, failedAt, pre, preUnit, pcrashed, failures>>
    /\ UNCHANGED notPipeline

\* pipeline/mod.rs 209-211: destroy the old pipeline
DestroyOldPipeline ==
    /\ ~pcrashed /\ pc = "destroy_pipeline"
    /\ LET hs == IF vulkan_pipeline # 0 THEN {vulkan_pipeline} ELSE {}
       IN  /\ doubleDestroy' = doubleDestroy \cup NotLive(device, "pipelines", hs)
           /\ device' = DestroyAll(device, "pipelines", hs)
    /\ pc' = "destroy_layout"
    /\ UNCHANGED <<shader_modules, descriptor_set_layouts, vulkan_pipeline_layout,
                   vulkan_pipeline, inCollection, nextHandle, si,
                   new_descriptor_sets, new_layout, compiles, presult, failedAt,
                   pre, preUnit, pcrashed, failures>>
    /\ UNCHANGED notPipeline

\* pipeline/mod.rs 213-215: destroy the old pipeline layout
DestroyOldLayout ==
    /\ ~pcrashed /\ pc = "destroy_layout"
    /\ LET hs == IF vulkan_pipeline_layout # 0 THEN {vulkan_pipeline_layout} ELSE {}
       IN  /\ doubleDestroy' = doubleDestroy \cup NotLive(device, "layouts", hs)
           /\ device' = DestroyAll(device, "layouts", hs)
    /\ pc' = "store"
    /\ UNCHANGED <<shader_modules, descriptor_set_layouts, vulkan_pipeline_layout,
                   vulkan_pipeline, inCollection, nextHandle, si,
                   new_descriptor_sets, new_layout, compiles, presult, failedAt,
                   pre, preUnit, pcrashed, failures>>
    /\ UNCHANGED notPipeline

\* pipeline/mod.rs 218-219: the new descriptor-set layouts and the new
\* pipeline layout are stored
StoreLayouts ==
    /\ ~pcrashed /\ pc = "store"
    /\ descriptor_set_layouts' = [some |-> TRUE, sets |-> new_descriptor_sets]
    /\ vulkan_pipeline_layout' = new_layout
    /\ pc' = "create_pipeline"
    /\ UNCHANGED <<shader_modules, vulkan_pipeline, inCollection, device,
                   doubleDestroy, nextHandle, si, new_descriptor_sets, new_layout,
                   compiles, presult, failedAt, pre, preUnit, pcrashed,
                   failures>>
    /\ UNCHANGED notPipeline

\* pipeline/mod.rs 220-230: create_graphics_pipelines(..).unwrap()[0] is
\* stored and compile() returns Ok; a creation error panics in the unwrap.
\* reload() pushes a pipeline that is new (mod.rs 239).
CreateGraphicsPipeline ==
    /\ ~pcrashed /\ pc = "create_pipeline"
    /\ \E ok \in BOOLEAN :
          IF ok
          THEN /\ vulkan_pipeline' = nextHandle
               /\ device' = [device EXCEPT !.pipelines = @ \cup {nextHandle}]
               /\ nextHandle' = nextHandle + 1
               /\ presult' = "ok"
               /\ inCollection' = TRUE
               /\ pc' = "idle"
               /\ UNCHANGED <<failedAt, pcrashed, failures>>
          ELSE /\ presult' = "panic"
               /\ failedAt' = "create_graphics_pipelines"
               /\ pcrashed' = TRUE
               /\ failures' = failures + 1
               /\ UNCHANGED <<vulkan_pipeline, device, nextHandle, inCollection, pc>>
    /\ UNCHANGED <<shader_modules, descriptor_set_layouts, vulkan_pipeline_layout,
                   doubleDestroy, si, new_descriptor_sets, new_layout, compiles,
                   pre, preUnit>>
    /\ UNCHANGED notPipeline

\* impl Drop for RenderPipeline (30-47) and impl Drop for ShaderModule
\* (shader.rs 33-44): a new pipeline whose first compile() failed is dropped
DropPipeline ==
    /\ ~pcrashed /\ pc = "drop"
    /\ LET ds == IF descriptor_set_layouts.some
                 THEN Range(descriptor_set_layouts.sets) ELSE {}
           ls == IF vulkan_pipeline_layout # 0 THEN {vulkan_pipeline_layout} ELSE {}
           ps == IF vulkan_pipeline # 0 THEN {vulkan_pipeline} ELSE {}
           ms == {shader_modules[i].vulkan_shader_module :
                    i \in 1..Len(shader_modules)} \ {0}
       IN  /\ doubleDestroy' = doubleDestroy
                  \cup NotLive(device, "dsls", ds) \cup NotLive(device, "layouts", ls)
                  \cup NotLive(device, "pipelines", ps)
                  \cup NotLive(device, "modules", ms)
           /\ device' = DestroyAll(DestroyAll(DestroyAll(DestroyAll(device,
                            "dsls", ds), "layouts", ls), "pipelines", ps),
                            "modules", ms)
    /\ pc' = "dropped"
    /\ UNCHANGED <<shader_modules, descriptor_set_layouts, vulkan_pipeline_layout,
                   vulkan_pipeline, inCollection, nextHandle, si,
                   new_descriptor_sets, new_layout, compiles, presult, failedAt,
                   pre, preUnit, pcrashed, failures>>
    /\ UNCHANGED notPipeline

\* the next reload(true) finds no pipeline of the name and creates one
\* (mod.rs 235-237: RenderPipeline::new)
NewPipeline ==
    /\ ~pcrashed /\ pc = "dropped" /\ compiles < MaxCompiles
    /\ shader_modules' = RenderPipeline_new.shader_modules
    /\ descriptor_set_layouts' = RenderPipeline_new.descriptor_set_layouts
    /\ vulkan_pipeline_layout' = RenderPipeline_new.vulkan_pipeline_layout
    /\ vulkan_pipeline' = RenderPipeline_new.vulkan_pipeline
    /\ pc' = "idle"
    /\ UNCHANGED <<inCollection, device, doubleDestroy, nextHandle, si,
                   new_descriptor_sets, new_layout, compiles, presult, failedAt,
                   pre, preUnit, pcrashed, failures>>
    /\ UNCHANGED notPipeline

(***************************************************************************)
(* ShaderModule::reflect_input_attributes (shader.rs 91-118) with the      *)
(* tables reflect_to_vulkan_format (203-219) and reflect_format_to_offset  *)
(* (223-233).  Offsets and the stride are u32; an entry adds at most 16,    *)
(* so the sum of a shader's inputs stays far below 2^32.                   *)
(***************************************************************************)
ReflectFormats ==
    {"Undefined", "R32_UINT", "R32_SINT", "R32_SFLOAT",
     "R32G32_UINT", "R32G32_SINT", "R32G32_SFLOAT",
     "R32G32B32_UINT", "R32G32B32_SINT", "R32G32B32_SFLOAT",
     "R32G32B32A32_UINT", "R32G32B32A32_SINT", "R32G32B32A32_SFLOAT"}

reflect_to_vulkan_format(format) ==
    IF format = "Undefined" THEN "UNDEFINED"
    ELSE IF format = "R32G32_SINT" THEN "R32G32_UINT"
    ELSE format

\* A faulty variant of the table below: a three-component format takes the
\* room of four components.
reflect_format_to_offset_padded(format) ==
    IF format = "Undefined" THEN 0
    ELSE IF format \in {"R32_UINT", "R32_SINT", "R32_SFLOAT"} THEN 4
    ELSE IF format \in {"R32G32_UINT", "R32G32_SINT", "R32G32_SFLOAT"} THEN 8
    ELSE 16

reflect_format_to_offset(format) ==
    IF format = "Undefined" THEN 0
    ELSE IF format \in {"R32_UINT", "R32_SINT", "R32_SFLOAT"} THEN 4
    ELSE IF format \in {"R32G32_UINT", "R32G32_SINT", "R32G32_SFLOAT"} THEN 8
    ELSE IF format \in {"R32G32B32_UINT", "R32G32B32_SINT"} THEN 12
    ELSE IF format = "R32G32B32_SFLOAT" THEN 12
    ELSE IF format \in {"R32G32B32A32_UINT", "R32G32B32A32_SINT"} THEN 16
    ELSE 16

\* the loop of lines 102-110: one attribute per input variable, in the order
\* of enumeration, at the running offset
RECURSIVE ReflectFrom(_, _, _, _)
ReflectFrom(inputs, i, offset, attrs) ==
    IF i > Len(inputs)
    THEN [input_attributes |-> attrs, binding_desc |-> [stride |-> offset]]
    ELSE ReflectFrom(inputs, i + 1,
             offset + reflect_format_to_offset(inputs[i].format),
             Append(attrs, [location |-> inputs[i].location,
                            format |-> reflect_to_vulkan_format(inputs[i].format),
                            offset |-> offset]))

\* A faulty variant of reflect_input_attributes: the stride is taken before
\* the last input is counted.
reflect_input_attributes_short_stride(inputs) ==
    LET r == ReflectFrom(inputs, 1, 0, <<>>)
    IN  IF inputs = <<>> THEN r
        ELSE [r EXCEPT !.binding_desc.stride =
                  r.input_attributes[Len(inputs)].offset]

reflect_input_attributes(inputs) == ReflectFrom(inputs, 1, 0, <<>>)

\* the input variables of a vertex shader: up to MaxInputs of them, at
\* distinct locations, in any order of enumeration
InputVariables == [location : 0..MaxLocation, format : ReflectFormats]

InputLists ==
    {l \in UNION {[1..n -> InputVariables] : n \in 0..MaxInputs} :
        \A i, j \in 1..Len(l) : i # j => l[i].location # l[j].location}

ReflectInit ==
    /\ input_variables = <<>>
    /\ input_attributes = <<>>
    /\ binding_desc = [stride |-> 0]
    /\ rstate = "new"

\* a compiled vertex shader with any list of input variables
InitReflect ==
    /\ RendererInit /\ PipelineInit /\ LayoutsInit /\ DescriptorsInit
    /\ BatchInit /\ BuilderInit /\ CollectionInit
    /\ ViewportInit
    /\ EmitInit
    /\ SetWriteInit
    /\ WriteInit
    /\ BarrierInit
    /\ input_variables \in InputLists
    /\ input_attributes = <<>>
    /\ binding_desc = [stride |-> 0]
    /\ rstate = "new"

\* RenderPipeline::compile, pipeline/mod.rs 176
Reflect ==
    /\ rstate = "new"
    /\ LET r == reflect_input_attributes(input_variables)
       IN  /\ input_attributes' = r.input_attributes
           /\ binding_desc' = r.binding_desc
    /\ rstate' = "reflected"
    /\ UNCHANGED input_variables
    /\ UNCHANGED notReflect

(***************************************************************************)
(* The descriptor-set layouts of RenderPipeline::compile (pipeline/mod.rs  *)
(* 135-160) from ShaderModule::create_descriptor_sets (shader.rs 120-145). *)
(* A reflected descriptor set is [set, bindings]; a reflected binding is   *)
(* [binding, descriptor_type, count].                                      *)
(***************************************************************************)
ReflectDescriptorTypes == {"UniformBuffer", "CombinedImageSampler"}

reflect_to_vulkan_descriptor_type(descriptor_type) ==
    IF descriptor_type = "UniformBuffer" THEN "UNIFORM_BUFFER"
    ELSE "COMBINED_IMAGE_SAMPLER"

\* impl From<ShaderKind> for vk::ShaderStageFlags: the flag bits as a set
stage_flags(kind) == IF kind = "Vertex" THEN {"VERTEX"} ELSE {"FRAGMENT"}

\* one Vec<vk::DescriptorSetLayoutBinding> per reflected descriptor set, in
\* the order of enumeration; the set number is not read
create_descriptor_sets(kind, sets) ==
    [i \in 1..Len(sets) |->
        [j \in 1..Len(sets[i].bindings) |->
            [descriptor_type |->
                 reflect_to_vulkan_descriptor_type(
                     sets[i].bindings[j].descriptor_type),
             binding |-> sets[i].bindings[j].binding,
             descriptor_count |-> sets[i].bindings[j].count,
             stage_flags |-> stage_flags(kind)]]]

\* the loops of lines 137-152: one layout per shader and descriptor set,
\* pushed in that order; raw_descriptor_sets (154-157) keeps the order
RECURSIVE set_layouts_from(_, _, _)
set_layouts_from(units, i, descriptor_sets) ==
    IF i > Len(units) THEN descriptor_sets
    ELSE set_layouts_from(units, i + 1,
             descriptor_sets \o create_descriptor_sets(ConfigShaders[i], units[i]))

\* the bindings a shader can declare in one descriptor set: at least one,
\* numbered up to maxBinding, in ascending binding number
BindingLists(maxBinding) ==
    {l \in UNION {[1..n -> [binding : 0..maxBinding,
                            descriptor_type : ReflectDescriptorTypes,
                            count : {1}]] : n \in 1..(maxBinding + 1)} :
        \A i \in 1..(Len(l) - 1) : l[i].binding < l[i + 1].binding}

\* the descriptor sets a shader can declare, numbered up to maxSet, in
\* ascending set number
ReflectedSetLists(maxSet) ==
    {l \in UNION {[1..n -> [set : 0..maxSet,
                            bindings : BindingLists(MaxBinding)]] :
                     n \in 0..(maxSet + 1)} :
        \A i \in 1..(Len(l) - 1) : l[i].set < l[i + 1].set}

\* a pipeline whose shaders have been compiled (lines 92-94)
InitLayouts ==
    /\ RendererInit /\ PipelineInit /\ ReflectInit /\ DescriptorsInit
    /\ BatchInit /\ BuilderInit /\ CollectionInit
    /\ ViewportInit
    /\ EmitInit
    /\ SetWriteInit
    /\ WriteInit
    /\ BarrierInit
    /\ reflected_sets \in
           [1..Len(ConfigShaders) -> ReflectedSetLists(MaxSetNumber)]
    /\ created_set_layouts = <<>>
    /\ lstate = "new"

\* pipeline/mod.rs 136-152 with every create_descriptor_set_layout Ok
CreateSetLayouts ==
    /\ lstate = "new"
    /\ created_set_layouts' = set_layouts_from(reflected_sets, 1, <<>>)
    /\ lstate' = "created"
    /\ UNCHANGED reflected_sets
    /\ UNCHANGED notLayouts

(***************************************************************************)
(* GameRenderer handles, DescriptorSet::allocate (pipeline/mod.rs          *)
(* 259-290), impl Drop for DescriptorSet (241-256) and the descriptor pool *)
(* that impl Drop for GameRendererInner destroys (render/mod.rs 50-71).    *)
(* GameRenderer is an Arc: GameRendererInner is dropped with the last      *)
(* handle, and every DescriptorSet holds one (pipeline/mod.rs 237, 287).   *)
(***************************************************************************)
\* Arc::strong_count of the GameRendererInner, as if the descriptor sets held
\* no handle of the renderer
strong_count_handles_only(handles, sets) == handles

\* Arc::strong_count of the GameRendererInner
strong_count(handles, sets) == handles + Cardinality(sets)

\* the Arc after a handle was dropped: impl Drop for GameRendererInner runs
\* with the last one and destroys the pool (render/mod.rs 55)
pool_after_drop(pool, handles, sets) ==
    IF strong_count(handles, sets) = 0 THEN [pool EXCEPT !.live = FALSE]
    ELSE pool

\* DescriptorSet::allocate for a pipeline argument that names a pipeline or
\* not (found), on a pipeline with `groups` descriptor-set layouts; ok is
\* the result of allocate_descriptor_sets
allocate(found, groups, set_index, ok) ==
    IF ~found THEN [result |-> "panic", detail |-> "find_pipeline"]
    ELSE IF set_index >= groups
    THEN [result |-> "panic", detail |-> "descriptor_set_layouts.get"]
    ELSE IF ~ok THEN [result |-> "err", detail |-> "allocate_descriptor_sets"]
    ELSE [result |-> "ok", detail |-> "none"]

\* #[derive(Clone)] on GameRenderer (render/mod.rs 73-74)
CloneRenderer ==
    /\ ~dpanicked /\ renderer_handles > 0 /\ renderer_handles < MaxHandles
    /\ renderer_handles' = renderer_handles + 1
    /\ UNCHANGED <<descriptor_pool, live_descriptor_sets, nextObject,
                   lastAllocate, pool_destroyed_by, pool_misuse, dpanicked>>
    /\ UNCHANGED notDescriptors

\* a GameRenderer value goes out of scope
DropRenderer ==
    /\ renderer_handles > 0
    /\ renderer_handles' = renderer_handles - 1
    /\ descriptor_pool' = pool_after_drop(descriptor_pool, renderer_handles - 1,
                                          live_descriptor_sets)
    /\ pool_destroyed_by' =
           IF descriptor_pool.live /\ ~descriptor_pool'.live THEN "renderer"
           ELSE pool_destroyed_by
    /\ UNCHANGED <<live_descriptor_sets, nextObject, lastAllocate, pool_misuse,
                   dpanicked>>
    /\ UNCHANGED notDescriptors

\* DescriptorSet::allocate(renderer, pipeline, set_index)
Allocate ==
    /\ ~dpanicked /\ renderer_handles > 0 /\ nextObject <= MaxDescriptorSets
    /\ \E found \in BOOLEAN, groups \in 0..MaxGroups, set_index \in 0..MaxGroups,
          ok \in BOOLEAN :
          LET r == allocate(found, groups, set_index, ok)
              vk_descriptor_set == nextObject
          IN  /\ lastAllocate' =
                     [op |-> "allocate", found |-> found, groups |-> groups,
                      set_index |-> set_index, result |-> r.result,
                      detail |-> r.detail]
              /\ dpanicked' = (r.result = "panic")
              /\ IF r.result = "ok"
                 THEN /\ descriptor_pool' =
                             [descriptor_pool EXCEPT
                                  !.allocated = @ \cup {vk_descriptor_set}]
                      /\ live_descriptor_sets' = live_descriptor_sets \cup
                             {[object |-> nextObject,
                               vk_descriptor_set |-> vk_descriptor_set]}
                      /\ nextObject' = nextObject + 1
                 ELSE UNCHANGED <<descriptor_pool, live_descriptor_sets,
                                  nextObject>>
    /\ UNCHANGED <<renderer_handles, pool_destroyed_by, pool_misuse>>
    /\ UNCHANGED notDescriptors

\* #[derive(Clone)] on DescriptorSet (pipeline/mod.rs 234): the same
\* vk::DescriptorSet and one more handle of the renderer
CloneDescriptorSet ==
    /\ ~dpanicked /\ nextObject <= MaxDescriptorSets
    /\ \E d \in live_descriptor_sets :
          live_descriptor_sets' = live_descriptor_sets \cup
              {[object |-> nextObject, vk_descriptor_set |-> d.vk_descriptor_set]}
    /\ nextObject' = nextObject + 1
    /\ UNCHANGED <<renderer_handles, descriptor_pool, lastAllocate,
                   pool_destroyed_by, pool_misuse, dpanicked>>
    /\ UNCHANGED notDescriptors

\* impl Drop for DescriptorSet: free_descriptor_sets into the renderer's
\* pool, then the fields are dropped, the handle of the renderer among them
DropDescriptorSet ==
    /\ \E d \in live_descriptor_sets :
          LET freed == [descriptor_pool EXCEPT
                            !.allocated = @ \ {d.vk_descriptor_set}]
              rest == live_descriptor_sets \ {d}
          IN  /\ pool_misuse' = pool_misuse
                     \cup (IF descriptor_pool.live THEN {}
                           ELSE {"freed_into_destroyed_pool"})
                     \cup (IF d.vk_descriptor_set \in descriptor_pool.allocated
                           THEN {} ELSE {"freed_twice"})
              /\ live_descriptor_sets' = rest
              /\ descriptor_pool' = pool_after_drop(freed, renderer_handles, rest)
    /\ pool_destroyed_by' =
           IF descriptor_pool.live /\ ~descriptor_pool'.live THEN "descriptor_set"
           ELSE pool_destroyed_by
    /\ UNCHANGED <<renderer_handles, nextObject, lastAllocate, dpanicked>>
    /\ UNCHANGED notDescriptors

DescriptorsNext ==
    \/ CloneRenderer \/ DropRenderer \/ Allocate \/ CloneDescriptorSet
    \/ DropDescriptorSet

(***************************************************************************)
(* GameRenderer::queue_buffer_builder on one queue (render/mod.rs          *)
(* 319-387): the grouping pass, then one vertex buffer and one index       *)
(* buffer per group.                                                       *)
(***************************************************************************)
Textures == 1..MaxTextures

\* the values of VertexFormat (539-545) over the textures
BatchFormats ==
    {[tag |-> "TriangleCoordColor", image |-> 0],
     [tag |-> "QuadCoordColor", image |-> 0]}
    \cup {[tag |-> "QuadCoordImage", image |-> i] : i \in Textures}

\* a builder after build() (662-668): begin()..end() was called for the
\* vertices of a triangle or of a quad, and add_indices appended its indices
QueuedBuilders ==
    {[vertices |-> n, indices |-> add_indices(fmt), vertex_format |-> fmt] :
        n \in 3..4, fmt \in BatchFormats}

\* lines 349-376 for one group: vertices and indices are Vec<Vec<_>> with
\* one element per builder, the buffers are sized by their lengths, and
\* write_ptr copies that many elements of the element type Vec<_>
materialize_run(buffer_builder_group) ==
    LET vertices == [i \in 1..Len(buffer_builder_group) |->
                         buffer_builder_group[i].vertices]
        indices == [i \in 1..Len(buffer_builder_group) |->
                        buffer_builder_group[i].indices]
        vertex_format == buffer_builder_group[1].vertex_format
        vertex_buffer == Buffer_new(1, vertex_size(vertex_format) * Len(vertices))
        index_buffer == Buffer_new(2, SizeOfU16 * Len(indices))
    IN  [vertices |-> vertices,
         indices |-> indices,
         vertex_format |-> vertex_format,
         vertex_buffer |-> vertex_buffer,
         index_buffer |-> index_buffer,
         vertex_input_size |-> SizeOfVecHeader * Len(vertices),
         index_input_size |-> SizeOfVecHeader * Len(indices),
         panics |-> \/ write_ptr_panics(vertex_buffer, SizeOfVecHeader,
                                        Len(vertices))
                    \/ write_ptr_panics(index_buffer, SizeOfVecHeader,
                                        Len(indices))]

\* a queue of built builders, and queue_buffer_builder is called
InitBatch ==
    /\ RendererInit /\ PipelineInit /\ ReflectInit /\ LayoutsInit
    /\ DescriptorsInit /\ BuilderInit /\ CollectionInit
    /\ ViewportInit
    /\ EmitInit
    /\ SetWriteInit
    /\ WriteInit
    /\ BarrierInit
    /\ flush_queue \in UNION {[1..n -> QueuedBuilders] : n \in 0..MaxBatch}
    /\ buffer_builder_groups = <<>>
    /\ runs = <<>>
    /\ gstate = "queued"

\* lines 321-343
GroupQueue ==
    /\ gstate = "queued"
    /\ buffer_builder_groups' = GroupBuilders(flush_queue)
    /\ gstate' = "grouped"
    /\ UNCHANGED <<flush_queue, runs>>
    /\ UNCHANGED notBatch

\* lines 348-377 for the next group, with both Buffer::new calls Ok
MaterializeRun ==
    /\ gstate = "grouped"
    /\ LET k == Len(runs) + 1
           run == materialize_run(buffer_builder_groups[k])
       IN  IF k > Len(buffer_builder_groups)
           THEN /\ gstate' = "materialized"
                /\ UNCHANGED runs
           ELSE /\ runs' = Append(runs, run)
                /\ gstate' = IF run.panics THEN "panicked" ELSE "grouped"
    /\ UNCHANGED <<flush_queue, buffer_builder_groups>>
    /\ UNCHANGED notBatch

BatchNext == GroupQueue \/ MaterializeRun

(***************************************************************************)
(* BufferBuilder::begin, color, uv and end (render/mod.rs 610-660; the     *)
(* same four functions are in render/buffer/builder.rs 51-101).  A vertex  *)
(* is [position, color, uv]: which of its fields are set.  A panic ends    *)
(* the use of the builder.                                                 *)
(***************************************************************************)
BuilderCall(op, result) == [op |-> op, result |-> result]

\* begin (610-624): panics when a vertex is in progress
BuilderBegin ==
    /\ ~bpanicked /\ Len(builder_vertices) < MaxVertices
    /\ IF current_vertex.some
       THEN /\ bpanicked' = TRUE
            /\ lastBuilderCall' = BuilderCall("begin", "panic")
            /\ UNCHANGED current_vertex
       ELSE /\ current_vertex' = [some |-> TRUE, position |-> TRUE,
                                  color |-> FALSE, uv |-> FALSE]
            /\ lastBuilderCall' = BuilderCall("begin", "ok")
            /\ UNCHANGED bpanicked
    /\ UNCHANGED builder_vertices
    /\ UNCHANGED notBuilder

\* color (626-637): panics when no vertex is in progress or uv is set
BuilderColor ==
    /\ ~bpanicked
    /\ IF ~current_vertex.some
       THEN /\ bpanicked' = TRUE
            /\ lastBuilderCall' = BuilderCall("color", "panic")
            /\ UNCHANGED current_vertex
       ELSE IF current_vertex.uv
       THEN /\ bpanicked' = TRUE
            /\ lastBuilderCall' = BuilderCall("color", "panic")
            /\ UNCHANGED current_vertex
       ELSE /\ current_vertex' = [current_vertex EXCEPT !.color = TRUE]
            /\ lastBuilderCall' = BuilderCall("color", "ok")
            /\ UNCHANGED bpanicked
    /\ UNCHANGED builder_vertices
    /\ UNCHANGED notBuilder

\* uv (639-650): panics when no vertex is in progress or color is set
BuilderUv ==
    /\ ~bpanicked
    /\ IF ~current_vertex.some
       THEN /\ bpanicked' = TRUE
            /\ lastBuilderCall' = BuilderCall("uv", "panic")
            /\ UNCHANGED current_vertex
       ELSE IF current_vertex.color
       THEN /\ bpanicked' = TRUE
            /\ lastBuilderCall' = BuilderCall("uv", "panic")
            /\ UNCHANGED current_vertex
       ELSE /\ current_vertex' = [current_vertex EXCEPT !.uv = TRUE]
            /\ lastBuilderCall' = BuilderCall("uv", "ok")
            /\ UNCHANGED bpanicked
    /\ UNCHANGED builder_vertices
    /\ UNCHANGED notBuilder

\* A faulty variant of end: the vertex is put in front of the vertex list.
BuilderEndPrepends ==
    /\ ~bpanicked
    /\ IF ~current_vertex.some
       THEN /\ bpanicked' = TRUE
            /\ lastBuilderCall' = BuilderCall("end", "panic")
            /\ UNCHANGED <<builder_vertices, current_vertex>>
       ELSE /\ builder_vertices' =
                   << [position |-> current_vertex.position,
                       color |-> current_vertex.color,
                       uv |-> current_vertex.uv] >> \o builder_vertices
            /\ current_vertex' = [some |-> FALSE]
            /\ lastBuilderCall' = BuilderCall("end", "ok")
            /\ UNCHANGED bpanicked
    /\ UNCHANGED notBuilder

\* end (652-660): panics when no vertex is in progress, else pushes it
BuilderEnd ==
    /\ ~bpanicked
    /\ IF ~current_vertex.some
       THEN /\ bpanicked' = TRUE
            /\ lastBuilderCall' = BuilderCall("end", "panic")
            /\ UNCHANGED <<builder_vertices, current_vertex>>
       ELSE /\ builder_vertices' =
                   Append(builder_vertices,
                          [position |-> current_vertex.position,
                           color |-> current_vertex.color,
                           uv |-> current_vertex.uv])
            /\ current_vertex' = [some |-> FALSE]
            /\ lastBuilderCall' = BuilderCall("end", "ok")
            /\ UNCHANGED bpanicked
    /\ UNCHANGED notBuilder

BuilderNext == BuilderBegin \/ BuilderColor \/ BuilderUv \/ BuilderEnd

(***************************************************************************)
(* The pipeline loop of GameRenderer::reload(true) (render/mod.rs          *)
(* 208-243) and GameRenderer::find_pipeline (531-536).  A pipeline of the  *)
(* collection is [name, compiled]: compiled counts its compile() calls     *)
(* that returned Ok.                                                       *)
(***************************************************************************)
\* A faulty variant of the search below: no pipeline is ever found.
find_index_none(pipes, pipeline_name_) == 0

\* .iter().find(|pipeline| pipeline.name == name): the place of the first
\* pipeline of the name, 0 for None
find_index(pipes, pipeline_name_) ==
    IF \E i \in 1..Len(pipes) : pipes[i].name = pipeline_name_
    THEN CHOOSE i \in 1..Len(pipes) :
             /\ pipes[i].name = pipeline_name_
             /\ \A j \in 1..(i - 1) : pipes[j].name # pipeline_name_
    ELSE 0

\* GameRenderer::find_pipeline: Option<&RenderPipeline>
find_pipeline(pipes, pipeline_name_) ==
    LET i == find_index(pipes, pipeline_name_)
    IN  IF i = 0 THEN [some |-> FALSE] ELSE [some |-> TRUE, pipeline |-> pipes[i]]

\* reload(true) reaches the loop: read_dir lists the records
ReloadPipelinesBegin ==
    /\ reload_state = "idle" /\ reloads < MaxReloads
    /\ reloads' = reloads + 1
    /\ pipeline_configs' \in
           UNION {[1..n -> PipelineNames] : n \in 0..MaxConfigs}
    /\ config_index' = 1
    /\ reload_state' = "running"
    /\ UNCHANGED <<inner_pipelines, lastRecord>>
    /\ UNCHANGED notCollection

\* lines 225-240 for one record: read it (`?`), find the pipeline of its
\* name, compile it, or make a new one, compile it and push it; an Err of
\* compile() ends reload() and drops the pipeline that was not pushed
ProcessRecord ==
    /\ reload_state = "running" /\ config_index <= Len(pipeline_configs)
    /\ \E step \in {"none", "read", "compile"} :
          LET name == pipeline_configs[config_index]
              i == find_index(inner_pipelines, name)
          IN  /\ lastRecord' =
                     [op |-> "record", name |-> name, found |-> i # 0,
                      result |-> IF step = "none" THEN "ok" ELSE "err",
                      detail |-> step]
              /\ inner_pipelines' =
                     IF step # "none" THEN inner_pipelines
                     ELSE IF i # 0
                     THEN [inner_pipelines EXCEPT ![i].compiled = @ + 1]
                     ELSE Append(inner_pipelines,
                                 [name |-> name, compiled |-> 1])
              /\ reload_state' = IF step = "none" THEN "running" ELSE "idle"
              /\ config_index' = IF step = "none" THEN config_index + 1
                                 ELSE config_index
    /\ UNCHANGED <<pipeline_configs, reloads>>
    /\ UNCHANGED notCollection

\* line 245: every record was processed, reload() returns Ok
ReloadPipelinesEnd ==
    /\ reload_state = "running" /\ config_index > Len(pipeline_configs)
    /\ reload_state' = "idle"
    /\ UNCHANGED <<inner_pipelines, pipeline_configs, config_index, reloads,
                   lastRecord>>
    /\ UNCHANGED notCollection

CollectionNext == ReloadPipelinesBegin \/ ProcessRecord \/ ReloadPipelinesEnd

(***************************************************************************)
(* WrappedDevice::memory_barrier (device.rs 85-148) called on its own with *)
(* any pair of layouts, as Image::from_file does (render/image.rs 93-127): *)
(* a pair with no arm in the match panics.                                 *)
(***************************************************************************)
MemoryBarrier ==
    /\ ~crashed /\ fstate = "Idle"
    /\ \E old_layout \in ImageLayouts, new_layout_ \in ImageLayouts :
          LET r == memory_barrier(old_layout, new_layout_) IN
          /\ lastBarrier' = [op |-> "memory_barrier",
                             old_layout |-> old_layout,
                             new_layout |-> new_layout_, result |-> r.result]
          /\ crashed' = (r.result = "panic")
          /\ lastCall' = Call("memory_barrier", r.result, "none")
    /\ UNCHANGED <<swapchain, swapchainLive, imageCount, current_image_index,
                   pipelines, queued_buffer_builder, cmds, destroyedBufs,
                   nextBuf, nextSwap, fstate, frames, builtThisFrame>>
    /\ UNCHANGED <<fixedHandles, destroyedHandles, gpuVars>>
    /\ UNCHANGED notRendererNorBarrier

(***************************************************************************)
(* Buffer::new, Buffer::write and Buffer::write_ptr (render/buffer.rs      *)
(* 35-102).  input_size is computed in usize: the product                  *)
(* size_of::<T>() * count wraps in a build without overflow checks and     *)
(* panics in a build with them; copy_nonoverlapping copies `count`         *)
(* elements whatever input_size was.                                       *)
(***************************************************************************)
UsizeRange == 2 ^ UsizeBits

\* mem::size_of::<T>() of the element types written: a zero-sized type, u8,
\* u16 and f32
ElementSizes == {0, 1, 2, 4}

Builds == {"overflow_checks", "wrapping"}

\* `if self.size < input_size { panic!(..) }` (74-80, 91-97)
write_guard(size, input_size) == size < input_size

\* Buffer::write<T>(data) (72-87): one element is copied
write(size, size_of_T) ==
    LET input_size == size_of_T IN
    IF write_guard(size, input_size)
    THEN [result |-> "panic", copied |-> 0]
    ELSE [result |-> "ok", copied |-> size_of_T * 1]

\* Buffer::write_ptr<T>(data, count) (89-102)
write_ptr(size, size_of_T, count, build) ==
    LET product == size_of_T * count
        input_size == product % UsizeRange
    IN  IF product >= UsizeRange /\ build = "overflow_checks"
        THEN [result |-> "panic", copied |-> 0]
        ELSE IF write_guard(size, input_size)
        THEN [result |-> "panic", copied |-> 0]
        ELSE [result |-> "ok", copied |-> size_of_T * count]

\* Buffer::new(app, usage, size, alloc_flags) (35-70)
BufferNew ==
    /\ ~wpanicked /\ ~staging_buffer.some
    /\ \E size \in 0..MaxBufferSize :
          staging_buffer' = [some |-> TRUE, size |-> size]
    /\ UNCHANGED <<lastWrite, wpanicked>>
    /\ UNCHANGED notWrite

BufferWrite ==
    /\ ~wpanicked /\ staging_buffer.some
    /\ \E size_of_T \in ElementSizes :
          LET r == write(staging_buffer.size, size_of_T) IN
          /\ lastWrite' = [op |-> "write", size_of_T |-> size_of_T, count |-> 1,
                           result |-> r.result, copied |-> r.copied]
          /\ wpanicked' = (r.result = "panic")
    /\ UNCHANGED staging_buffer
    /\ UNCHANGED notWrite

BufferWritePtr ==
    /\ ~wpanicked /\ staging_buffer.some
    /\ \E size_of_T \in ElementSizes, count \in 0..(UsizeRange - 1),
          build \in Builds :
          LET r == write_ptr(staging_buffer.size, size_of_T, count, build) IN
          /\ lastWrite' = [op |-> "write_ptr", size_of_T |-> size_of_T,
                           count |-> count, result |-> r.result,
                           copied |-> r.copied]
          /\ wpanicked' = (r.result = "panic")
    /\ UNCHANGED staging_buffer
    /\ UNCHANGED notWrite

WriteNext == BufferNew \/ BufferWrite \/ BufferWritePtr

(***************************************************************************)
(* The kinds of a descriptor-set group from compile() to write_to_set      *)
(* (render/pipeline/mod.rs): compile() stores, next to each layout, the    *)
(* descriptor types of the group's bindings in the order of enumeration    *)
(* (144-150); allocate() clones that list into the DescriptorSet           *)
(* (285-289); write_to_set indexes the list with the binding number        *)
(* (297-344).                                                              *)
(***************************************************************************)
\* lines 146-150: descriptor_set.iter().map(|desc| desc.descriptor_type)
binding_types_of(bindings) ==
    [j \in 1..Len(bindings) |->
        reflect_to_vulkan_descriptor_type(bindings[j].descriptor_type)]

\* write_to_set for Buffer (298-318) and for Image (322-343):
\* descriptor_set.binding_types[binding as usize], which panics when the
\* index is out of bounds
write_to_set(binding_types, binding) ==
    IF binding >= Len(binding_types)
    THEN [result |-> "panic"]
    ELSE [result |-> "ok", descriptor_type |-> binding_types[binding + 1],
          dst_binding |-> binding]

\* RenderPipeline::compile stores the group of the shader as compiled now
CompileSet ==
    /\ ~spanicked
    /\ \E bindings \in BindingLists(MaxBinding) :
          pipeline_set' = [some |-> TRUE, bindings |-> bindings,
                           binding_types |-> binding_types_of(bindings)]
    /\ UNCHANGED <<allocated_set, lastSetWrite, spanicked>>
    /\ UNCHANGED notSetWrite

\* DescriptorSet::allocate (259-290) with allocate_descriptor_sets Ok
AllocateSet ==
    /\ ~spanicked /\ pipeline_set.some
    /\ allocated_set' = [some |-> TRUE, declared |-> pipeline_set.bindings,
                         binding_types |-> pipeline_set.binding_types]
    /\ UNCHANGED <<pipeline_set, lastSetWrite, spanicked>>
    /\ UNCHANGED notSetWrite

\* resource.write_to_set(&descriptor_set, binding), the resource a Buffer or
\* an Image
WriteToSet ==
    /\ ~spanicked /\ allocated_set.some
    /\ \E binding \in 0..MaxBinding, resource \in {"Buffer", "Image"} :
          LET r == write_to_set(allocated_set.binding_types, binding) IN
          /\ lastSetWrite' =
                 [op |-> "write_to_set", resource |-> resource,
                  binding |-> binding, write |-> r]
          /\ spanicked' = (r.result = "panic")
    /\ UNCHANGED <<pipeline_set, allocated_set>>
    /\ UNCHANGED notSetWrite

SetWriteNext == CompileSet \/ AllocateSet \/ WriteToSet

(***************************************************************************)
(* One vertex through BufferBuilder::begin, color, uv, end                 *)
(* (render/buffer/builder.rs 51-101) and VertexFormat::extend_raw_data     *)
(* (render/buffer/format.rs 26-40), for the three formats of format.rs     *)
(* 9-13 and any list of color()/uv() calls between begin() and end().      *)
(***************************************************************************)
FormatTags == {"PositionColor", "PositionTexCoord", "PositionTexCoordColor"}

\* VertexFormat::vertex_size (format.rs 17-23)
format_vertex_size(format) ==
    IF format = "PositionColor" THEN SizeOfVec2 + SizeOfVec3
    ELSE IF format = "PositionTexCoord" THEN SizeOfVec2 * 2
    ELSE SizeOfVec2 * 2 + SizeOfVec3

\* color (builder.rs 67-78) on the vertex in progress
builder_color(vertex) ==
    IF ~vertex.some THEN [result |-> "panic", vertex |-> vertex]
    ELSE IF vertex.uv THEN [result |-> "panic", vertex |-> vertex]
    ELSE [result |-> "ok", vertex |-> [vertex EXCEPT !.color = TRUE]]

\* uv (builder.rs 80-91) on the vertex in progress
builder_uv(vertex) ==
    IF ~vertex.some THEN [result |-> "panic", vertex |-> vertex]
    ELSE IF vertex.color THEN [result |-> "panic", vertex |-> vertex]
    ELSE [result |-> "ok", vertex |-> [vertex EXCEPT !.uv = TRUE]]

\* extend_raw_data (format.rs 26-40): the position, then the attributes of
\* the format in the order of the match arm; unwrap() panics on an attribute
\* the vertex does not carry, after the bytes appended before it
extend_raw_data(format, vertex) ==
    IF format = "PositionColor"
    THEN IF vertex.color
         THEN [result |-> "ok", bytes |-> SizeOfVec2 + SizeOfVec3]
         ELSE [result |-> "panic", bytes |-> SizeOfVec2]
    ELSE IF format = "PositionTexCoord"
    THEN IF vertex.uv
         THEN [result |-> "ok", bytes |-> SizeOfVec2 + SizeOfVec2]
         ELSE [result |-> "panic", bytes |-> SizeOfVec2]
    ELSE IF ~vertex.color
         THEN [result |-> "panic", bytes |-> SizeOfVec2]
         ELSE IF ~vertex.uv
         THEN [result |-> "panic", bytes |-> SizeOfVec2 + SizeOfVec3]
         ELSE [result |-> "ok", bytes |-> SizeOfVec2 + SizeOfVec3 + SizeOfVec2]

\* a builder of any format, and a caller about to make any calls
InitEmit ==
    /\ RendererInit /\ PipelineInit /\ ReflectInit /\ LayoutsInit
    /\ DescriptorsInit /\ BatchInit /\ BuilderInit /\ CollectionInit
    /\ ViewportInit
    /\ SetWriteInit /\ WriteInit /\ BarrierInit
    /\ emit_format \in FormatTags
    /\ emit_calls \in UNION {[1..n -> {"color", "uv"}] : n \in 0..MaxCalls}
    /\ emit_done = 0
    /\ emit_vertex = [some |-> FALSE]
    /\ emit_vertices = <<>>
    /\ raw_data = 0
    /\ estate = "new"

\* begin (builder.rs 51-65)
EmitBegin ==
    /\ estate = "new"
    /\ IF emit_vertex.some
       THEN /\ estate' = "panicked"
            /\ UNCHANGED emit_vertex
       ELSE /\ emit_vertex' = [some |-> TRUE, color |-> FALSE, uv |-> FALSE]
            /\ estate' = "begun"
    /\ UNCHANGED <<emit_format, emit_calls, emit_done, emit_vertices, raw_data>>
    /\ UNCHANGED notEmit

\* the caller's next color() or uv()
EmitAttribute ==
    /\ estate = "begun" /\ emit_done < Len(emit_calls)
    /\ LET r == IF emit_calls[emit_done + 1] = "color"
                THEN builder_color(emit_vertex)
                ELSE builder_uv(emit_vertex)
       IN  /\ emit_vertex' = r.vertex
           /\ estate' = IF r.result = "panic" THEN "panicked" ELSE "begun"
    /\ emit_done' = emit_done + 1
    /\ UNCHANGED <<emit_format, emit_calls, emit_vertices, raw_data>>
    /\ UNCHANGED notEmit

\* end (builder.rs 93-101), after the caller's last call
EmitEnd ==
    /\ estate = "begun" /\ emit_done = Len(emit_calls)
    /\ IF ~emit_vertex.some
       THEN /\ estate' = "panicked"
            /\ UNCHANGED <<emit_vertex, emit_vertices>>
       ELSE /\ emit_vertices' =
                   Append(emit_vertices, [color |-> emit_vertex.color,
                                          uv |-> emit_vertex.uv])
            /\ emit_vertex' = [some |-> FALSE]
            /\ estate' = "ended"
    /\ UNCHANGED <<emit_format, emit_calls, emit_done, raw_data>>
    /\ UNCHANGED notEmit

\* vertex_format.extend_raw_data(&mut raw_data, vertex) for the ended vertex
ExtendRawData ==
    /\ estate = "ended"
    /\ LET r == extend_raw_data(emit_format, emit_vertices[Len(emit_vertices)])
       IN  /\ raw_data' = raw_data + r.bytes
           /\ estate' = IF r.result = "panic" THEN "panicked" ELSE "serialized"
    /\ UNCHANGED <<emit_format, emit_calls, emit_done, emit_vertex,
                   emit_vertices>>
    /\ UNCHANGED notEmit

EmitNext == EmitBegin \/ EmitAttribute \/ EmitEnd \/ ExtendRawData

\* GameRenderer::new, a new RenderPipeline and no layout reflected yet
Init ==
    /\ RendererInit /\ PipelineInit /\ ReflectInit /\ LayoutsInit
    /\ DescriptorsInit /\ BatchInit /\ BuilderInit /\ CollectionInit
    /\ ViewportInit
    /\ EmitInit
    /\ SetWriteInit
    /\ WriteInit
    /\ BarrierInit

RendererNext == Reload \/ Begin \/ ClearColor \/ Build \/ Flush \/ End

FrameNext == Reload \/ Begin \/ ClearColor \/ End \/ Drop

PipelineNext ==
    \/ CompileBegin \/ ShaderSource \/ ShaderDestroyOld \/ ShaderCreate
    \/ CreateDescriptorSetLayout \/ CreatePipelineLayout
    \/ DestroyOldDescriptorSetLayouts \/ DestroyOldPipeline \/ DestroyOldLayout
    \/ StoreLayouts \/ CreateGraphicsPipeline \/ DropPipeline \/ NewPipeline

BarrierNext == FrameNext \/ MemoryBarrier

\* BufferBuilder::build by a screen that leaves one builder pending at most
BuildOnce == Build /\ queued_buffer_builder = <<>>

ResizeNext == Reload \/ Resized \/ Begin \/ ClearColor \/ BuildOnce \/ End

\* the Geometry Batcher and the Frame Controller
Spec == Init /\ [][RendererNext]_vars

\* the Frame Controller under the event loop of main.rs, without the batcher
SpecFrame == Init /\ [][FrameNext]_vars

\* reflect_input_attributes on every list of input variables
SpecReflect == InitReflect /\ [][Reflect]_vars

\* RenderPipeline::compile on the counting device
SpecPipeline == Init /\ [][PipelineNext]_vars

\* the descriptor-set layouts compile() creates, for every pair of shaders
SpecLayouts == InitLayouts /\ [][CreateSetLayouts]_vars

\* renderer handles and descriptor sets, made and dropped in any order
SpecDescriptors == Init /\ [][DescriptorsNext]_vars

\* queue_buffer_builder on every queue of built builders
SpecBatch == InitBatch /\ [][BatchNext]_vars

\* one BufferBuilder under any sequence of begin, color, uv and end
SpecBuilder == Init /\ [][BuilderNext]_vars

\* reload(true) called again and again over any pipeline configurations
SpecCollection == Init /\ [][CollectionNext]_vars

\* the Frame Controller, and memory_barrier called with any pair of layouts
SpecBarrier == Init /\ [][BarrierNext]_vars

\* one Buffer under any sequence of write and write_ptr
SpecWrite == Init /\ [][WriteNext]_vars

\* one descriptor-set group: compile, allocate, write_to_set, recompile
SpecSetWrite == Init /\ [][SetWriteNext]_vars

\* one vertex of every format, from begin() to extend_raw_data
SpecEmit == InitEmit /\ [][EmitNext]_vars

\* the Frame Controller with builders queued while the screen renders and
\* the window resized between frames
SpecResize == Init /\ [][ResizeNext]_vars

(***************************************************************************)
(* Properties of the Geometry Batcher (specification Spec).                *)
(***************************************************************************)
\* the places of q where a maximal run of adjacent equal builders starts
RunStarts(q) ==
    {i \in 1..Len(q) : i = 1 \/ ~BufferBuilderEq(q[i - 1], q[i])}

RECURSIVE Concat(_)
Concat(groups) ==
    IF groups = <<>> THEN <<>> ELSE Head(groups) \o Concat(Tail(groups))

IsDraw(c) == c.op = "draw_indexed"

\* the commands the step appends to the command buffer
Recorded == SubSeq(cmds', Len(cmds) + 1, Len(cmds'))

\* the pipeline bound for each run of q, in run order
RunPipelines(q) ==
    LET RECURSIVE From(_)
        From(i) == IF i > Len(q) THEN <<>>
                   ELSE IF i \in RunStarts(q)
                   THEN <<pipeline_name(q[i].vertex_format)>> \o From(i + 1)
                   ELSE From(i + 1)
    IN  From(1)

BoundPipelines(c) ==
    LET binds == SelectSeq(c, LAMBDA x : x.op = "bind_pipeline")
    IN  [i \in 1..Len(binds) |-> binds[i].arg]

\* the grouping pass splits q exactly at its run starts
GroupsAreRuns(q) ==
    LET g == GroupBuilders(q)
    IN  /\ Concat(g) = q
        /\ Len(g) = Cardinality(RunStarts(q))
        /\ \A k \in 1..Len(g) : g[k] # <<>>
        /\ \A k \in 1..Len(g) : \A j \in 2..Len(g[k]) :
               BufferBuilderEq(g[k][j - 1], g[k][j])
        /\ \A k \in 2..Len(g) :
               ~BufferBuilderEq(g[k - 1][Len(g[k - 1])], g[k][1])

\* C1: a flush that meets no allocation error groups the queue into its
\* maximal runs of adjacent equal builders and records one indexed draw per
\* run, in run order (so [A,A,B,A] gives 3 draws: A, B, A).
C1_OneDrawPerRun ==
    [][(Flush /\ lastCall'.result # "err") =>
          /\ GroupsAreRuns(queued_buffer_builder)
          /\ Len(SelectSeq(Recorded, IsDraw)) =
                 Cardinality(RunStarts(queued_buffer_builder))
          /\ BoundPipelines(Recorded) = RunPipelines(queued_buffer_builder)]_vars

\* C2: when flush returns to its caller (Ok or Err) the pending queue is
\* empty; no builder stays queued for a later flush or frame.
C2_QueueEmptyAfterFlush ==
    [][(Flush /\ lastCall'.result \in {"ok", "err"}) =>
          queued_buffer_builder' = <<>>]_vars

\* the builders enqueued since the frame's begin()
FrameBuilders ==
    SubSeq(queued_buffer_builder,
           Len(queued_buffer_builder) - builtThisFrame + 1,
           Len(queued_buffer_builder))

\* C3: when end() returns after a successful present, the command buffer it
\* submitted holds an indexed draw for every run of the builders enqueued
\* since begin().
C3_EndDrawsQueuedBuilders ==
    (lastCall = Call("end", "ok", "none")) =>
        Len(SelectSeq(cmds, IsDraw)) >= Cardinality(RunStarts(FrameBuilders))

(***************************************************************************)
(* Properties of RenderPipeline::compile and ShaderModule::compile         *)
(* (specification SpecPipeline).                                           *)
(***************************************************************************)
Compiling == pc \notin {"idle", "drop", "dropped"}

OldHandleDestroyed ==
    \/ pre.vulkan_pipeline # 0 /\ pre.vulkan_pipeline \notin device.pipelines
    \/ pre.vulkan_pipeline_layout # 0
          /\ pre.vulkan_pipeline_layout \notin device.layouts
    \/ Range(pre.descriptor_set_layouts.sets) \ device.dsls # {}

NewPipelineCreated ==
    \E h \in device.pipelines : h # pre.vulkan_pipeline

\* C5: in compile() no handle the pipeline held on entry (graphics pipeline,
\* pipeline layout, descriptor-set layout) is destroyed before the new
\* graphics pipeline has been created.
C5_DestroyOnlyAfterCreate ==
    (~pcrashed /\ Compiling /\ OldHandleDestroyed) => NewPipelineCreated

\* C6: a pipeline that has been compiled holds, at every step of a recompile
\* and after it, a live pipeline handle and a live pipeline-layout handle, and
\* no handle is destroyed twice.
C6_OneLiveHandleAtEveryStep ==
    (inCollection /\ pc # "dropped") =>
        /\ vulkan_pipeline \in device.pipelines
        /\ vulkan_pipeline_layout \in device.layouts
        /\ \A d \in doubleDestroy : d[1] \notin {"pipelines", "layouts"}

ShaderSteps == {"read_source", "create_compiler", "compile_into_spirv",
                "create_shader_module"}

\* compile() has just returned the Err of one of its shader units
ShaderCompileFailed ==
    /\ presult = "err" /\ failedAt \in ShaderSteps /\ pc \in {"idle", "drop"}

\* C7: when compile() of a compiled pipeline returns the error of a shader
\* unit, the stored pipeline, pipeline layout and descriptor-set layouts are
\* the handles held on entry, and all of them are live.
C7_ShaderErrorKeepsPipeline ==
    (ShaderCompileFailed /\ pre.vulkan_pipeline # 0) =>
        /\ vulkan_pipeline = pre.vulkan_pipeline
        /\ vulkan_pipeline_layout = pre.vulkan_pipeline_layout
        /\ descriptor_set_layouts = pre.descriptor_set_layouts
        /\ vulkan_pipeline \in device.pipelines
        /\ vulkan_pipeline_layout \in device.layouts
        /\ Range(descriptor_set_layouts.sets) \subseteq device.dsls

\* the error is the one of the second unit's module creation, on a recompile
C7_Witness ==
    /\ ShaderCompileFailed /\ pre.vulkan_pipeline # 0
    /\ si = 2 /\ failedAt = "create_shader_module"

\* C8: a failing creation of the graphics pipeline makes compile() return an
\* error to its caller; the program goes on.
C8_CreationErrorIsReturned ==
    failedAt = "create_graphics_pipelines" => (presult = "err" /\ ~pcrashed)

\* C9: a unit's module handle is None before the first compile(), and a
\* failing ShaderModule::compile leaves the unit with the module handle it had
\* on entry, still live, and with the compiled binary it had on entry.
C9_FailedCompileKeepsUnit ==
    /\ compiles = 0 =>
           \A i \in 1..Len(shader_modules) :
               shader_modules[i].vulkan_shader_module = 0
    /\ ShaderCompileFailed =>
           /\ shader_modules[si].vulkan_shader_module = preUnit.vulkan_shader_module
           /\ shader_modules[si].vulkan_shader_module \in device.modules \cup {0}
           /\ shader_modules[si].shader_ir_code = preUnit.shader_ir_code

\* C10: at every step of ShaderModule::compile the module handle stored in
\* the unit is a live one (the old module is destroyed only once the new one
\* exists).
C10_StoredModuleIsLive ==
    pc \in {"shader_source", "shader_destroy", "shader_create"} =>
        shader_modules[si].vulkan_shader_module \in device.modules \cup {0}

(***************************************************************************)
(* Properties of the Frame Controller (specification SpecFrame).           *)
(***************************************************************************)
\* queue_present of the current frame reported ERROR_OUT_OF_DATE_KHR
PresentOutOfDate ==
    \E i \in 1..Len(gpu) : gpu[i].op = "present" /\ gpu[i].result = "out_of_date"

\* the current frame was presented
FramePresented ==
    \E i \in 1..Len(gpu) : gpu[i].op = "present" /\ gpu[i].result = "ok"

\* what the out-of-date path of end() leaves when it returns Ok
RecoveredFrom(old) ==
    /\ lastCall'.result = "ok"
    /\ swapchain' # old /\ swapchain' # 0 /\ swapchainLive'
    /\ imageCount' = surfaceImages'
    /\ ~FramePresented'

C12_AcquireOutOfDateRecovered ==
    (lastCall.op = "begin" /\ lastCall.detail = "acquire_out_of_date") =>
        (lastCall.result = "ok" /\ ~crashed)

\* C13: a failure of queue_present other than out-of-date makes end() return
\* an Err to its caller; end() does not panic.
C13_PresentErrorIsReturned ==
    (lastCall.op = "end" /\ lastCall.detail = "present_error") =>
        lastCall.result = "err"

\* C14: until the renderer is dropped, a swapchain handle stored in the Frame
\* State is live: a rebuild destroys the old swapchain only once the new one
\* exists, so a failed rebuild leaves the old, live handle.
C14_StoredSwapchainIsLive ==
    (fstate # "Dropped" /\ swapchain # 0) => swapchainLive

\* C15: when end() has returned Ok after a successful present, a
\* device_wait_idle followed that present and no submission is in flight; the
\* command pool is never reset by begin() while a submission is in flight.
C15_IdleWaitAfterPresent ==
    /\ "reset_pending" \notin hazard
    /\ (lastCall.op = "end" /\ lastCall.result = "ok" /\ FramePresented) =>
           /\ ~pending
           /\ Len(gpu) >= 2
           /\ gpu[Len(gpu)].op = "wait_idle"
           /\ gpu[Len(gpu) - 1].op = "present"

\* a second frame has ended with a successful present
C15_Witness ==
    /\ lastCall = Call("end", "ok", "none") /\ FramePresented /\ frames = 2

CountOps(op) == Len(SelectSeq(gpu, LAMBDA e : e.op = op))

\* C16: in every frame at most one image is acquired, the command buffer is
\* submitted at most once and the frame is presented at most once; a frame in
\* recording has acquired one image and submitted nothing; a frame whose end()
\* returned Ok acquired exactly one image and submitted exactly once; between
\* frames no submission is in flight, and the command buffer is never reset
\* while one is.
C16_FrameCycle ==
    /\ CountOps("acquire") <= 1 /\ CountOps("submit") <= 1
    /\ CountOps("present") <= 1
    /\ CountOps("submit") = 1 => (CountOps("acquire") = 1 /\ gpu[1].op = "acquire")
    /\ CountOps("present") = 1 => CountOps("submit") = 1
    /\ fstate \in {"Recording", "Rendering"} =>
           /\ CountOps("acquire") = 1 /\ CountOps("submit") = 0
           /\ ~pending
    /\ (lastCall.op = "end" /\ lastCall.result = "ok") =>
           /\ CountOps("acquire") = 1 /\ CountOps("submit") = 1
           /\ fstate = "Idle"
    /\ (fstate = "Idle" /\ ~crashed) => ~pending
    /\ "reset_pending" \notin hazard

\* a frame is presented after an earlier swapchain rebuild
C16_Witness ==
    /\ lastCall.op = "end" /\ lastCall.result = "ok" /\ frames = 2
    /\ CountOps("present") = 1 /\ FramePresented /\ nextSwap = 3

\* C17: the acquire signals submit_semaphore; the submission follows it, waits
\* on submit_semaphore and signals present_semaphore; the present follows the
\* submission and waits on present_semaphore; no semaphore is signalled while
\* it holds an unconsumed signal, and none is waited on without one.
C17_SemaphoreOrder ==
    /\ submit_semaphore # present_semaphore
    /\ hazard \cap {"resignal", "wait_unsignaled"} = {}
    /\ \A i \in 1..Len(gpu) :
          /\ gpu[i].op = "acquire" => gpu[i].signal = submit_semaphore
          /\ gpu[i].op = "submit" =>
                 /\ gpu[i].wait = submit_semaphore
                 /\ gpu[i].signal = present_semaphore
                 /\ i > 1 /\ gpu[i - 1].op = "acquire"
          /\ gpu[i].op = "present" =>
                 /\ gpu[i].wait = present_semaphore
                 /\ i > 1 /\ gpu[i - 1].op = "submit"
    /\ (fstate = "Idle" /\ ~crashed) => signaled = {}

\* the frame after an out-of-date recovery has been submitted and presented
C17_Witness ==
    /\ frames = 2 /\ FramePresented /\ signaled = {}
    /\ nextSwap = 3 /\ lastCall.op = "end"

SwapchainAndIndex ==
    /\ (lastCall.op = "reload" /\ lastCall.result = "ok") =>
           (swapchain # 0 /\ swapchainLive /\ imageCount >= MinImageCount)
    /\ (~crashed /\ swapchain # 0) => imageCount = surfaceImages
    /\ (lastCall.op = "begin" /\ lastCall.result = "ok") => swapchain # 0
    /\ fstate \in {"Recording", "Rendering"} =>
           (current_image_index < imageCount)
    /\ fstate = "Rendering" =>
           (\A i \in 1..Len(cmds) :
               (cmds[i].op = "begin_rendering") => (cmds[i].arg < imageCount))

\* a stored swapchain stays stored, and begin() with none stored panics
SwapchainStep ==
    /\ (swapchain # 0) => (swapchain' # 0)
    /\ (frames' = frames + 1 /\ swapchain = 0) =>
           (lastCall' = Call("begin", "panic", "swapchain") /\ crashed')

\* C38: after a successful reload() the swapchain is present, and stays
\* present, with as many image views as the swapchain has images; the index
\* begin(), clear_color() and end() use is less than the number of images;
\* begin() with no swapchain stored panics.
C38_SwapchainPresentAndIndexInRange ==
    []SwapchainAndIndex /\ [][SwapchainStep]_vars

\* the second frame renders into the last image of a swapchain that replaced
\* the one of the first frame
C38_Witness ==
    /\ ~crashed /\ fstate = "Rendering" /\ frames = 2 /\ nextSwap > 2
    /\ current_image_index = imageCount - 1

(***************************************************************************)
(* Properties of the Vertex Attribute Layout (specification SpecReflect).  *)
(***************************************************************************)
\* bytes of a reflected format: 4 per 32-bit component, none when undefined
FormatBytes(format) ==
    IF format = "Undefined" THEN 0
    ELSE IF format \in {"R32_UINT", "R32_SINT", "R32_SFLOAT"} THEN 4
    ELSE IF format \in {"R32G32_UINT", "R32G32_SINT", "R32G32_SFLOAT"} THEN 2 * 4
    ELSE IF format \in {"R32G32B32_UINT", "R32G32B32_SINT", "R32G32B32_SFLOAT"}
    THEN 3 * 4
    ELSE 4 * 4

\* bytes of the first n input variables
RECURSIVE BytesBefore(_)
BytesBefore(n) ==
    IF n = 0 THEN 0
    ELSE BytesBefore(n - 1) + FormatBytes(input_variables[n].format)

EntryBytes(i) == FormatBytes(input_variables[i].format)

LayoutShape ==
    /\ Len(input_attributes) = Len(input_variables)
    /\ \A i \in 1..(Len(input_attributes) - 1) :
          input_attributes[i].offset + EntryBytes(i)
              <= input_attributes[i + 1].offset
    /\ BytesBefore(Len(input_variables)) = binding_desc.stride

\* C19 as stated: the layout has one entry per input variable, every offset is
\* smaller than the next, no entry's bytes reach into the next entry, and the
\* entry sizes sum to the stride.
C19_StrictlyIncreasingOffsets ==
    rstate = "reflected" =>
        /\ LayoutShape
        /\ \A i \in 1..(Len(input_attributes) - 1) :
              input_attributes[i].offset < input_attributes[i + 1].offset

\* C19, amended: the layout has one entry per input variable, no entry's bytes
\* reach into the next entry, the entry sizes sum to the stride, and the
\* offsets never decrease; an offset is smaller than the next one exactly when
\* the entry's format is not Undefined (an Undefined format takes no bytes).
C19_NonOverlappingOffsets ==
    rstate = "reflected" =>
        /\ LayoutShape
        /\ \A i \in 1..(Len(input_attributes) - 1) :
              /\ input_attributes[i].offset <= input_attributes[i + 1].offset
              /\ (input_attributes[i].offset < input_attributes[i + 1].offset)
                     <=> (input_variables[i].format # "Undefined")

\* a layout of two entries, the first of an Undefined format
C19_Witness ==
    /\ rstate = "reflected" /\ Len(input_attributes) = 2
    /\ input_variables[1].format = "Undefined"
    /\ input_variables[2].format = "R32G32B32_SFLOAT"
    /\ binding_desc.stride = 12

RECURSIVE BytesBelow(_, _)
BytesBelow(loc, n) ==
    IF n = 0 THEN 0
    ELSE BytesBelow(loc, n - 1)
           + (IF input_variables[n].location < loc
              THEN FormatBytes(input_variables[n].format) ELSE 0)

\* C21: the entries of the layout appear in ascending order of declared
\* location, and every entry's offset is the sum of the sizes of the inputs
\* declared at lower locations, whatever the order in which the input
\* variables are enumerated.
C21_AscendingLocationOrder ==
    rstate = "reflected" =>
        /\ \A i \in 1..(Len(input_attributes) - 1) :
              input_attributes[i].location < input_attributes[i + 1].location
        /\ \A i \in 1..Len(input_attributes) :
              input_attributes[i].offset
                  = BytesBelow(input_attributes[i].location, Len(input_variables))

\* the vk::Format with the name of a reflected format
SameNameFormat(format) == IF format = "Undefined" THEN "UNDEFINED" ELSE format

\* bytes of a vk::Format: 4 per 32-bit component
VulkanFormatBytes(format) ==
    IF format = "UNDEFINED" THEN 0
    ELSE IF format \in {"R32_UINT", "R32_SINT", "R32_SFLOAT"} THEN 4
    ELSE IF format \in {"R32G32_UINT", "R32G32_SINT", "R32G32_SFLOAT"} THEN 8
    ELSE IF format \in {"R32G32B32_UINT", "R32G32B32_SINT", "R32G32B32_SFLOAT"}
    THEN 12
    ELSE 16

\* the bytes the layout gives to entry i: up to the next offset or the stride
BytesUsed(i) ==
    (IF i < Len(input_attributes) THEN input_attributes[i + 1].offset
     ELSE binding_desc.stride) - input_attributes[i].offset

\* C37: every input variable is given the vk::Format with the name of its
\* reflected format, the bytes it takes in the layout are the size of that
\* vk::Format, and only an Undefined input takes no bytes.
C37_FormatTableConsistent ==
    rstate = "reflected" =>
        \A i \in 1..Len(input_attributes) :
            /\ input_attributes[i].format
                   = SameNameFormat(input_variables[i].format)
            /\ BytesUsed(i) = VulkanFormatBytes(input_attributes[i].format)
            /\ (BytesUsed(i) = 0) <=> (input_variables[i].format = "Undefined")

(***************************************************************************)
(* Properties of the descriptor-set layouts (specification SpecLayouts).   *)
(***************************************************************************)
\* the logical sets a shader unit declares, and the bindings it declares in one
SetsOf(u) == {reflected_sets[u][i].set : i \in 1..Len(reflected_sets[u])}

BindingsOf(u, s) ==
    UNION {{reflected_sets[u][i].bindings[j].binding :
               j \in 1..Len(reflected_sets[u][i].bindings)} :
           i \in {k \in 1..Len(reflected_sets[u]) : reflected_sets[u][k].set = s}}

Units == 1..Len(reflected_sets)

DeclaredSets == UNION {SetsOf(u) : u \in Units}

\* the stages that declare binding b of logical set s
StagesOf(s, b) ==
    UNION {stage_flags(ConfigShaders[u]) :
               u \in {v \in Units : b \in BindingsOf(v, s)}}

SharedSet == \E s \in DeclaredSets : \A u \in Units : s \in SetsOf(u)

\* C22: when two shader units declare bindings in the same logical set, the
\* pipeline gets one descriptor-set layout per distinct logical set, the layout
\* at index i is the one of logical set i, and every binding of the set appears
\* in it once, with the stage flags of all the stages that declare it.
C22_SetsMergedAcrossStages ==
    (lstate = "created" /\ SharedSet) =>
        /\ Len(created_set_layouts) = Cardinality(DeclaredSets)
        /\ \A s \in DeclaredSets :
              /\ s + 1 <= Len(created_set_layouts)
              /\ LET layout == created_set_layouts[s + 1]
                 IN  /\ {layout[j].binding : j \in 1..Len(layout)}
                            = UNION {BindingsOf(u, s) : u \in Units}
                     /\ \A j, k \in 1..Len(layout) :
                            layout[j].binding = layout[k].binding => j = k
                     /\ \A j \in 1..Len(layout) :
                            layout[j].stage_flags = StagesOf(s, layout[j].binding)

(***************************************************************************)
(* Properties of the descriptor sets (specification SpecDescriptors).      *)
(***************************************************************************)
\* C23: allocate() with a set index that is not below the number of resource
\* groups of the pipeline returns the error InvalidSetIndex to its caller,
\* allocates nothing and leaves the pool and the descriptor sets as they were.
C23_InvalidSetIndexIsReturned ==
    [][(/\ lastAllocate' # lastAllocate
        /\ lastAllocate'.found
        /\ lastAllocate'.set_index >= lastAllocate'.groups) =>
           /\ lastAllocate'.result = "err"
           /\ lastAllocate'.detail = "InvalidSetIndex"
           /\ UNCHANGED <<descriptor_pool, live_descriptor_sets>>]_vars

\* C24: the pool is destroyed only when no DescriptorSet is alive and no set
\* allocated from it is outstanding, and no descriptor set is ever freed into
\* a destroyed pool, in whatever order handles and descriptor sets are dropped.
C24_PoolOutlivesDescriptorSets ==
    /\ "freed_into_destroyed_pool" \notin pool_misuse
    /\ ~descriptor_pool.live =>
           /\ live_descriptor_sets = {}
           /\ descriptor_pool.allocated = {}
           /\ renderer_handles = 0

\* every renderer handle was dropped while a descriptor set was still alive,
\* and the drop of the last descriptor set destroyed the pool
C24_Witness ==
    /\ ~descriptor_pool.live
    /\ pool_destroyed_by = "descriptor_set"
    /\ nextObject > 1

\* C35: no raw descriptor set is freed twice, and no DescriptorSet that is
\* still alive holds a raw descriptor set that has been freed, after any
\* sequence of allocate, clone and drop.
C35_FreedExactlyOnce ==
    /\ "freed_twice" \notin pool_misuse
    /\ \A d \in live_descriptor_sets :
           d.vk_descriptor_set \in descriptor_pool.allocated

(***************************************************************************)
(* Properties of the runs of queue_buffer_builder (specification           *)
(* SpecBatch).                                                             *)
(***************************************************************************)
RECURSIVE Flatten(_)
Flatten(seqs) == IF seqs = <<>> THEN <<>> ELSE Head(seqs) \o Flatten(Tail(seqs))

RECURSIVE SumOf(_)
SumOf(ns) == IF ns = <<>> THEN 0 ELSE Head(ns) + SumOf(Tail(ns))

MaxOf(ns) == CHOOSE m \in Range(ns) : \A n \in Range(ns) : n <= m

\* a run of quads of four vertices each
QuadRun(group) ==
    \A i \in 1..Len(group) :
        /\ group[i].vertex_format.tag # "TriangleCoordColor"
        /\ group[i].vertices = 4

\* C25: the index list of a run of k quads of four vertices has exactly 6k
\* entries, and its largest index is 4k - 1.
C25_QuadRunIndices ==
    \A k \in 1..Len(runs) :
        QuadRun(buffer_builder_groups[k]) =>
            LET n == Len(buffer_builder_groups[k])
                index_list == Flatten(runs[k].indices)
            IN  /\ Len(index_list) = 6 * n
                /\ MaxOf(index_list) = 4 * n - 1

\* C26: the vertex buffer of a run has vertex_size(format) bytes for every
\* vertex of the run, its index buffer has 2 bytes for every index of the run,
\* and the upload into each buffer has exactly the buffer's size, so that
\* write_ptr's size guard never trips.
C26_ExactBufferSizes ==
    \A k \in 1..Len(runs) :
        LET group == buffer_builder_groups[k]
            total_vertices == SumOf([i \in 1..Len(group) |-> group[i].vertices])
            total_indices ==
                SumOf([i \in 1..Len(group) |-> Len(group[i].indices)])
        IN  /\ runs[k].vertex_buffer.size
                   = vertex_size(runs[k].vertex_format) * total_vertices
            /\ runs[k].index_buffer.size = 2 * total_indices
            /\ runs[k].vertex_input_size = runs[k].vertex_buffer.size
            /\ runs[k].index_input_size = runs[k].index_buffer.size
            /\ ~runs[k].panics

\* C34: every index of a run's index list is less than the number of vertices
\* of the run, whatever the number of builders in the run and of vertices in
\* each builder.
C34_IndicesWithinRun ==
    \A k \in 1..Len(runs) :
        LET group == buffer_builder_groups[k]
            total_vertices == SumOf([i \in 1..Len(group) |-> group[i].vertices])
            index_list == Flatten(runs[k].indices)
        IN  \A j \in 1..Len(index_list) : index_list[j] < total_vertices

\* what a builder is batched by: the layout of its vertices, its topology,
\* its texture (0: none) and the pipeline it is drawn with
VertexLayoutOf(b) ==
    IF b.vertex_format.tag = "QuadCoordImage" THEN "CoordImage" ELSE "CoordColor"

TopologyOf(b) ==
    IF b.vertex_format.tag = "TriangleCoordColor" THEN "Triangle" ELSE "Quad"

TextureOf(b) == b.vertex_format.image

SameBatchKey(a, b) ==
    /\ VertexLayoutOf(a) = VertexLayoutOf(b)
    /\ TopologyOf(a) = TopologyOf(b)
    /\ TextureOf(a) = TextureOf(b)
    /\ pipeline_name(a.vertex_format) = pipeline_name(b.vertex_format)

\* C27: two builders are equal for batching exactly when they agree in vertex
\* layout, topology, texture and pipeline, whatever vertices they hold, and
\* the builders of one group agree in all four.
C27_EqualityForBatching ==
    /\ \A i, j \in 1..Len(flush_queue) :
          BufferBuilderEq(flush_queue[i], flush_queue[j])
              <=> SameBatchKey(flush_queue[i], flush_queue[j])
    /\ \A k \in 1..Len(buffer_builder_groups) :
          \A i, j \in 1..Len(buffer_builder_groups[k]) :
              SameBatchKey(buffer_builder_groups[k][i],
                           buffer_builder_groups[k][j])

\* two builders of one texture with different vertices share a group, and a
\* builder that differs from them in the texture alone starts the next group
C27_Witness ==
    /\ gstate = "grouped"
    /\ Len(flush_queue) = 3
    /\ Len(buffer_builder_groups) = 2
    /\ Len(buffer_builder_groups[1]) = 2
    /\ buffer_builder_groups[1][1].vertices # buffer_builder_groups[1][2].vertices
    /\ buffer_builder_groups[2][1].vertex_format.tag = "QuadCoordImage"
    /\ buffer_builder_groups[1][1].vertex_format.tag = "QuadCoordImage"
    /\ buffer_builder_groups[1][1].vertex_format.image
           # buffer_builder_groups[2][1].vertex_format.image

(***************************************************************************)
(* Properties of the BufferBuilder (specification SpecBuilder).            *)
(***************************************************************************)
\* C28: as long as no call on the builder has panicked, every completed vertex
\* has a position and exactly one of color and texture coordinate.
C28_ExactlyOneOfColorAndUv ==
    ~bpanicked =>
        \A i \in 1..Len(builder_vertices) :
            /\ builder_vertices[i].position
            /\ builder_vertices[i].color # builder_vertices[i].uv

\* the vertex a successful end() pushes
InProgressVertex ==
    [position |-> current_vertex.position, color |-> current_vertex.color,
     uv |-> current_vertex.uv]

\* what one call on the builder does, the call being the one lastBuilderCall
\* names after the step
ProtocolStep ==
    LET call == lastBuilderCall'
        ok == lastBuilderCall'.result = "ok"
    IN  /\ call.op \in {"begin", "color", "uv", "end"}
        /\ call.result \in {"ok", "panic"}
        /\ call.op = "begin" =>
               /\ ok <=> ~current_vertex.some
               /\ ok => (current_vertex'.some
                            /\ ~current_vertex'.color /\ ~current_vertex'.uv)
        /\ call.op \in {"color", "uv"} =>
               /\ ok => (current_vertex.some /\ current_vertex'.some)
               /\ ~current_vertex.some => ~ok
        /\ call.op = "end" =>
               /\ ok <=> current_vertex.some
               /\ ok => /\ builder_vertices' =
                               Append(builder_vertices, InProgressVertex)
                         /\ ~current_vertex'.some
        /\ (call.op # "end" \/ ~ok) => builder_vertices' = builder_vertices
        /\ ~ok => (bpanicked' /\ UNCHANGED current_vertex)

\* C33: begin() is accepted only when no vertex is in progress and color(),
\* uv() and end() only when one is; any other call panics; a successful end()
\* appends the vertex in progress as the last element of the vertex list and
\* leaves no vertex in progress, and no other call changes the vertex list.
C33_TwoStateProtocol == [][ProtocolStep]_vars

\* a colored vertex and then a textured vertex have been ended, in that order
C33_Witness ==
    /\ ~bpanicked /\ ~current_vertex.some
    /\ lastBuilderCall = BuilderCall("end", "ok")
    /\ Len(builder_vertices) = 2
    /\ builder_vertices[1].color /\ ~builder_vertices[1].uv
    /\ builder_vertices[2].uv /\ ~builder_vertices[2].color

(***************************************************************************)
(* Properties of the pipeline collection (specification SpecCollection).   *)
(***************************************************************************)
NamesOf(pipes) == [i \in 1..Len(pipes) |-> pipes[i].name]

UniqueNames ==
    \A i, j \in 1..Len(inner_pipelines) :
        inner_pipelines[i].name = inner_pipelines[j].name => i = j

FindPipelineIsExact ==
    \A n \in PipelineNames :
        LET found == find_pipeline(inner_pipelines, n)
        IN  /\ found.some <=> (\E i \in 1..Len(inner_pipelines) :
                                   inner_pipelines[i].name = n)
            /\ found.some => found.pipeline.name = n

\* a record of the loop is processed
RecordStep ==
    /\ reload_state = "running" /\ config_index <= Len(pipeline_configs)
    /\ lastRecord' # lastRecord \/ config_index' # config_index
           \/ reload_state' # reload_state

\* C29: no two pipelines of the collection have the same name, and
\* find_pipeline(n) returns a pipeline, the one named n, exactly when the
\* collection has one; a record whose name is in the collection compiles that
\* pipeline again and adds none, and a record whose name is new adds exactly
\* one pipeline, compiled and of that name, at the end of the collection when
\* its compile() returns Ok (none when it returns Err).
C29_PipelinesKeyedByName ==
    /\ [](UniqueNames /\ FindPipelineIsExact)
    /\ [][RecordStep =>
            LET name == pipeline_configs[config_index]
                existing == {i \in 1..Len(inner_pipelines) :
                                inner_pipelines[i].name = name}
            IN  IF lastRecord'.result # "ok"
                THEN inner_pipelines' = inner_pipelines
                ELSE IF existing # {}
                THEN /\ NamesOf(inner_pipelines') = NamesOf(inner_pipelines)
                     /\ \A i \in 1..Len(inner_pipelines) :
                            inner_pipelines'[i].compiled =
                                inner_pipelines[i].compiled
                                    + (IF i \in existing THEN 1 ELSE 0)
                ELSE inner_pipelines' =
                         Append(inner_pipelines, [name |-> name, compiled |-> 1])
         ]_vars

\* one reload(true) over two records of one name: the first made the pipeline,
\* the second compiled it again
C29_Witness ==
    /\ Len(pipeline_configs) = 2
    /\ pipeline_configs[1] = pipeline_configs[2]
    /\ config_index = 3
    /\ reloads = 1
    /\ inner_pipelines = <<[name |-> pipeline_configs[1], compiled |-> 2]>>

(***************************************************************************)
(* Idempotent recompilation (specification SpecPipeline).                  *)
(***************************************************************************)
\* every compile() call so far has returned Ok
OnlySuccessfulCompiles ==
    pc = "idle" /\ presult = "ok" /\ failures = 0 /\ compiles >= 1

UnitModules ==
    {shader_modules[i].vulkan_shader_module : i \in 1..Len(shader_modules)}

\* the shaders declare what they declared when the last compile() was entered
UnchangedShaders ==
    \A i \in 1..Len(shader_modules) :
        shader_modules[i].shader_ir_code.sets
            = pre.shader_modules[i].shader_ir_code.sets

\* C30: after any number of compile() calls that all returned Ok, the device
\* holds exactly the objects of the pipeline: one graphics pipeline, one
\* pipeline layout, one descriptor-set layout per resource group and one
\* module per shader unit, none of them destroyed twice; with unchanged
\* shaders the pipeline has as many objects of each kind as before the call.
C30_RecompileKeepsOneOfEach ==
    OnlySuccessfulCompiles =>
        /\ vulkan_pipeline # 0 /\ device.pipelines = {vulkan_pipeline}
        /\ vulkan_pipeline_layout # 0
        /\ device.layouts = {vulkan_pipeline_layout}
        /\ descriptor_set_layouts.some
        /\ device.dsls = Range(descriptor_set_layouts.sets)
        /\ Cardinality(device.dsls) = Len(descriptor_set_layouts.sets)
        /\ Len(descriptor_set_layouts.sets) = TotalSets(shader_modules)
        /\ 0 \notin UnitModules /\ device.modules = UnitModules
        /\ Cardinality(device.modules) = Len(shader_modules)
        /\ doubleDestroy = {}
        /\ (compiles >= 2 /\ UnchangedShaders) =>
               /\ pre.vulkan_pipeline # 0 /\ pre.vulkan_pipeline_layout # 0
               /\ Len(descriptor_set_layouts.sets)
                      = Len(pre.descriptor_set_layouts.sets)
               /\ Len(shader_modules) = Len(pre.shader_modules)

\* the third compile() of a pipeline with a descriptor set, shaders unchanged
C30_Witness ==
    /\ OnlySuccessfulCompiles /\ compiles = 3 /\ UnchangedShaders
    /\ Len(descriptor_set_layouts.sets) >= 1
    /\ vulkan_pipeline # pre.vulkan_pipeline
    /\ Cardinality(device.pipelines) = 1

(***************************************************************************)
(* Properties of memory_barrier and of the barriers of a frame             *)
(* (specification SpecBarrier).                                            *)
(***************************************************************************)
\* the four transitions the claim lists
ListedTransitions ==
    { <<"UNDEFINED", "TRANSFER_DST_OPTIMAL">>,
      <<"UNDEFINED", "COLOR_ATTACHMENT_OPTIMAL">>,
      <<"TRANSFER_DST_OPTIMAL", "SHADER_READ_ONLY_OPTIMAL">>,
      <<"COLOR_ATTACHMENT_OPTIMAL", "PRESENT_SRC_KHR">> }

\* the barriers recorded into the command buffer since the last begin()
FrameBarriers ==
    SelectSeq(cmds, LAMBDA c : c.op = "memory_barrier")

BeginBarrier == Barrier("UNDEFINED", "COLOR_ATTACHMENT_OPTIMAL")

EndBarrier == Barrier("COLOR_ATTACHMENT_OPTIMAL", "PRESENT_SRC_KHR")

\* what holds of the barriers in every state
BarriersAreListed ==
    /\ lastBarrier.op = "memory_barrier" =>
          /\ (lastBarrier.result = "ok") <=>
                 (<<lastBarrier.old_layout, lastBarrier.new_layout>>
                      \in ListedTransitions)
          /\ (lastBarrier.result # "ok") =>
                 (lastBarrier.result = "panic" /\ crashed)
    /\ lastCall.op \in {"begin", "end"} => lastCall.detail # "memory_barrier"
    /\ fstate \in {"Recording", "Rendering"} => FrameBarriers = <<BeginBarrier>>
    /\ (lastCall.op = "end" /\ fstate = "Idle") =>
          FrameBarriers = <<BeginBarrier, EndBarrier>>

\* C31: memory_barrier accepts exactly the four listed pairs of layouts and
\* panics for every other pair; a frame records exactly the barrier
\* UNDEFINED -> COLOR_ATTACHMENT_OPTIMAL in begin() and then the barrier
\* COLOR_ATTACHMENT_OPTIMAL -> PRESENT_SRC_KHR in end(), both for the image
\* acquired by begin(), and neither call panics in memory_barrier.
C31_FrameBarriersAreAccepted ==
    /\ []BarriersAreListed
    /\ [][(fstate \in {"Recording", "Rendering"}
              /\ fstate' \in {"Recording", "Rendering"})
             => UNCHANGED <<swapchain, imageCount, current_image_index>>]_vars

\* the second frame has recorded both barriers, and a call of memory_barrier
\* with an unlisted pair has then ended the program
C31_Witness ==
    /\ frames = MaxFrames
    /\ FrameBarriers = <<BeginBarrier, EndBarrier>>
    /\ lastBarrier.op = "memory_barrier" /\ lastBarrier.result = "panic"
    /\ lastBarrier.old_layout = "PRESENT_SRC_KHR"
    /\ crashed

DeclaredBindings ==
    {allocated_set.declared[j].binding : j \in 1..Len(allocated_set.declared)}

\* the kind the group declares for a binding number
DeclaredKind(binding) ==
    LET j == CHOOSE i \in 1..Len(allocated_set.declared) :
                 allocated_set.declared[i].binding = binding
    IN  reflect_to_vulkan_descriptor_type(
            allocated_set.declared[j].descriptor_type)

\* C36: a write_to_set for a binding number the group declares is encoded
\* with the kind the group declares for that number, also when the declared
\* numbers are not 0..n-1; the kinds of a DescriptorSet are those of the
\* group at allocation, whatever the pipeline was recompiled to afterwards.
C36_WriteUsesDeclaredKind ==
    /\ allocated_set.some =>
           allocated_set.binding_types = binding_types_of(allocated_set.declared)
    /\ (lastSetWrite.op = "write_to_set"
           /\ lastSetWrite.binding \in DeclaredBindings) =>
           /\ lastSetWrite.write.result = "ok"
           /\ lastSetWrite.write.descriptor_type
                  = DeclaredKind(lastSetWrite.binding)
           /\ lastSetWrite.write.dst_binding = lastSetWrite.binding

(***************************************************************************)
(* Properties of the vertex formats under the builder protocol             *)
(* (specification SpecEmit).                                               *)
(***************************************************************************)
\* the attribute calls a vertex of the format needs: only color() sets the
\* color and only uv() sets the texture coordinate
NeededCalls(format) ==
    IF format = "PositionColor" THEN {"color"}
    ELSE IF format = "PositionTexCoord" THEN {"uv"}
    ELSE {"color", "uv"}

\* the caller makes every call the format needs, and no other
MakesNeededCalls == Range(emit_calls) = NeededCalls(emit_format)

\* C39: for every format, a caller that makes the attribute calls the format
\* serializes, between begin() and end(), meets no panic, and extend_raw_data
\* appends exactly vertex_size(format) bytes for the vertex.
C39_EveryFormatCanBeBuilt ==
    MakesNeededCalls =>
        /\ estate # "panicked"
        /\ estate = "serialized" => raw_data = format_vertex_size(emit_format)

(***************************************************************************)
(* Properties of reload(false) (specification SpecResize).                 *)
(***************************************************************************)
\* a step that is a call of reload(false)
ReloadFalseStep == lastCall'.op = "reload" /\ lastReload' = "false"

\* what a call of reload(false) leaves as it was
ReloadFalseKeeps ==
    ReloadFalseStep =>
        /\ UNCHANGED <<pipelines, pipeline_handle, pipeline_viewport>>
        /\ UNCHANGED descriptor_pool
        /\ UNCHANGED queued_buffer_builder
        /\ UNCHANGED fixedHandles

\* C40: reload(false) rebuilds only the swapchain, its images and its image
\* views: the pipeline collection, every pipeline's handle and the viewport
\* extent it was compiled for, the descriptor pool and the pending builder
\* queue are the same after the call as before it, so after a resize every
\* pipeline still has the viewport of the extent it was compiled for.
C40_ReloadFalseKeepsPipelines == [][ReloadFalseKeeps]_vars

\* a resize handled by reload(false) with pipelines compiled and a builder
\* pending: every pipeline has a viewport of another extent than the window's
C40_Witness ==
    /\ lastCall = Call("reload", "ok", "none")
    /\ lastReload = "false"
    /\ pipelines # {}
    /\ \A name \in pipelines :
          pipeline_handle[name] # 0 /\ pipeline_viewport[name] # window_size
    /\ queued_buffer_builder # <<>>

====
